---- MODULE Spec2Model ----
(***************************************************************************)
(* Model of the SWLC lottery service: the record store (database.py), the  *)
(* freshness / continuity policies and the cached history operations of    *)
(* SWLCService (server.py).                                                *)
(*                                                                         *)
(* Game types are named by their lottery code (server.py:70-75):           *)
(*   "ssq" = shuang-se-qiu, "3d" = fucai 3D, "qlc" = qi-le-cai,            *)
(*   "kl8" = kuai-le-8; "dlt" stands for any name outside lottery_codes.   *)
(*                                                                         *)
(* The service runs on one asyncio event loop: the code between two awaits *)
(* runs atomically, so every handler is one "Start" action (up to the      *)
(* await of the HTTP request) and one "Resume" action (from the response   *)
(* to the return).                                                         *)
(***************************************************************************)
EXTENDS Integers, Sequences, FiniteSets, Bags, TLC

(* ------------------------------ bounds --------------------------------- *)
MaxPeriod == 2      \* draw periods are 1..MaxPeriod
MaxDay == 3         \* calendar days of draws are 0..MaxDay
MaxCount == 2       \* the `periods` argument ranges over 1..MaxCount
MaxCalls == 2       \* number of concurrently served requests
MaxOps == 2         \* total number of operations started in a behaviour
MaxTicks == 1       \* how far the clock advances past the last draw day

(* --------------------------- program constants ------------------------- *)
TicksPerDay == 2    \* clock resolution of the model: two ticks per day
MinPeriods == 1     \* api_server.py:113 Query(10, ge=1, ...), server.py:1081

SupportedTypes == {"ssq", "3d", "qlc", "kl8"}
Types == SupportedTypes \cup {"dlt"}
\* the game types requests are drawn from: one game with a secondary number
\* ("qlc" takes the same branches as "ssq"), one without ("kl8" takes the same
\* branches as "3d"), and an unsupported name
ServedTypes == {"ssq", "3d", "dlt"}
Calls == 1..MaxCalls
Periods == 1..MaxPeriod
Days == 0..MaxDay
Counts == MinPeriods..MaxCount
NowStart == TicksPerDay * MaxDay
MaxNow == NowStart + MaxTicks

(* ------------------------------ draw dates ------------------------------ *)
\* A draw-date string: "2024-01-01" (ymd), "2024-01-01(w)" with a weekday
\* suffix (ymdw), the empty string, or any other unparsable text (bad).
YmdDate(d) == [fmt |-> "ymd", day |-> d]
YmdwDate(d) == [fmt |-> "ymdw", day |-> d]
EmptyDate == [fmt |-> "empty", day |-> 0]
BadDate == [fmt |-> "bad", day |-> 0]
DateStrs == {YmdDate(d) : d \in Days} \cup {YmdwDate(d) : d \in Days}
              \cup {EmptyDate, BadDate}

\* draw_date.split('(')[0] if '(' in draw_date else draw_date
CleanDate(draw_date) ==
    IF draw_date.fmt = "ymdw" THEN YmdDate(draw_date.day) ELSE draw_date

\* datetime.strptime(clean_date, "%Y-%m-%d") succeeds
Parsable(clean_date) == clean_date.fmt = "ymd"

\* the day number of a parsed date (midnight of that day, in days)
Strptime(clean_date) == clean_date.day

\* a freshness bound one day too strict
FreshLimitStrict(lottery_type) ==
    CASE lottery_type = "ssq" -> 2
      [] lottery_type = "3d" -> 0
      [] lottery_type = "qlc" -> 2
      [] lottery_type = "kl8" -> 0
      [] OTHER -> 1

\* the per-type bound of days_diff in _is_data_fresh
FreshLimit(lottery_type) ==
    CASE lottery_type = "ssq" -> 3
      [] lottery_type = "3d" -> 1
      [] lottery_type = "qlc" -> 3
      [] lottery_type = "kl8" -> 1
      [] OTHER -> 2

\* (current_datetime - draw_datetime).days : whole days, rounded down
DaysDiff(draw_day, n) == (n - draw_day * TicksPerDay) \div TicksPerDay

\* a freshness check that treats a date it cannot parse as fresh
IsDataFreshFailOpen(draw_date, lottery_type, n) ==
    LET clean_date == CleanDate(draw_date) IN
    IF ~Parsable(clean_date)
    THEN TRUE
    ELSE DaysDiff(Strptime(clean_date), n) <= FreshLimit(lottery_type)

\* SWLCService._is_data_fresh, with datetime.now() = n ticks
IsDataFresh(draw_date, lottery_type, n) ==
    LET clean_date == CleanDate(draw_date) IN
    IF ~Parsable(clean_date)
    THEN FALSE
    ELSE DaysDiff(Strptime(clean_date), n) <= FreshLimit(lottery_type)

\* continuity limits one day too lenient
MaxDaysGapLoose(lottery_type) ==
    CASE lottery_type = "ssq" -> 5
      [] lottery_type = "3d" -> 3
      [] lottery_type = "qlc" -> 5
      [] lottery_type = "kl8" -> 3
      [] OTHER -> 4

\* max_days_gap of _check_period_continuity
MaxDaysGap(lottery_type) ==
    CASE lottery_type = "ssq" -> 4
      [] lottery_type = "3d" -> 2
      [] lottery_type = "qlc" -> 4
      [] lottery_type = "kl8" -> 2
      [] OTHER -> 3

\* the list `dates` built by _check_period_continuity: parsed days of the
\* rows whose date is non-empty and parsable, in row order
RECURSIVE ParsedDates(_)
ParsedDates(db_results) ==
    IF db_results = << >> THEN << >>
    ELSE LET draw_date == Head(db_results).draw_date
             clean_date == CleanDate(draw_date)
         IN  IF draw_date.fmt = "empty" \/ ~Parsable(clean_date)
             THEN ParsedDates(Tail(db_results))
             ELSE <<Strptime(clean_date)>> \o ParsedDates(Tail(db_results))

\* a continuity check that gives up (reports a gap) on a row without a
\* readable date
CheckPeriodContinuityAbort(db_results, lottery_type) ==
    IF Len(db_results) < 2 THEN TRUE
    ELSE IF \E i \in 1..Len(db_results) :
               \/ db_results[i].draw_date.fmt = "empty"
               \/ ~Parsable(CleanDate(db_results[i].draw_date))
         THEN FALSE
         ELSE \A i \in 1..(Len(db_results) - 1) :
                 ~(Strptime(CleanDate(db_results[i].draw_date))
                     - Strptime(CleanDate(db_results[i + 1].draw_date))
                         > MaxDaysGap(lottery_type))

\* SWLCService._check_period_continuity: TRUE means continuous (no gap)
CheckPeriodContinuity(db_results, lottery_type) ==
    IF Len(db_results) < 2 THEN TRUE
    ELSE LET dates == ParsedDates(db_results) IN
         IF Len(dates) < 2 THEN TRUE
         ELSE \A i \in 1..(Len(dates) - 1) :
                 ~(dates[i] - dates[i + 1] > MaxDaysGap(lottery_type))

(* ------------------------------ the source ------------------------------ *)
\* number lists a draw can carry (item['red'].split(',')); Blue is the value
\* of item['blue'] for the games with a secondary number
NumLists == {<<1, 2>>}
Numbers == {1, 2}
Blue == 1
NoBlue == 0

\* The days the source reports for period p: consecutive periods are drawn
\* on consecutive days up to MaxDay, and the oldest period may instead date
\* from day 0 (a long pause before the next draw).
DrawDays(p) ==
    {d \in Days : d = MaxDay - (MaxPeriod - p) \/ (p = 1 /\ d = 0)}

\* One element of data['result'].  missing = "red" / "code": the item lacks
\* that key (reading it raises KeyError); "none": a well-formed item.  The
\* source writes dates with a weekday suffix.
WellFormedItems ==
    UNION {{[code |-> p, date |-> dt, red |-> r, missing |-> "none"] :
               dt \in {YmdwDate(d) : d \in DrawDays(p)} \cup {BadDate},
               r \in NumLists} : p \in Periods}
MalformedItems ==
    {[code |-> 1, date |-> BadDate, red |-> <<1>>, missing |-> m] :
        m \in {"red", "code"}}
Items == WellFormedItems \cup MalformedItems

\* batches of at most n items
Batches(n) == UNION {[1..k -> Items] : k \in 0..n}

\* What the HTTP request of _fetch_lottery_data can come back with: an
\* exception (timeout, unreachable), or a response with a status code, a
\* `state` field and a `result` list of at most page_size items.
Responses(page_size) ==
    {[kind |-> k, status |-> 0, state |-> 0, result |-> << >>] :
        k \in {"timeout", "unreachable"}}
    \cup {[kind |-> "http", status |-> 500, state |-> 0, result |-> << >>],
          [kind |-> "http", status |-> 200, state |-> 1, result |-> << >>]}
    \cup {[kind |-> "http", status |-> 200, state |-> 0, result |-> b] :
             b \in Batches(page_size)}

None == << >>

\* a fetch that does not catch the timeout: the exception reaches the caller's
\* handler, as an item that cannot be read does
FetchLotteryDataTimeoutEscapes(resp) ==
    IF resp.kind = "timeout"
    THEN <<[code |-> 1, date |-> BadDate, red |-> <<1>>, missing |-> "red"]>>
    ELSE IF resp.kind # "http" THEN None
    ELSE IF resp.status = 200 /\ resp.state = 0 /\ resp.result # << >>
         THEN resp.result
         ELSE None

\* SWLCService._fetch_lottery_data after the request came back: data['result']
\* or None
FetchLotteryData(resp) ==
    IF resp.kind # "http" THEN None
    ELSE IF resp.status = 200 /\ resp.state = 0 /\ resp.result # << >>
         THEN resp.result
         ELSE None

(* ---------------------------- the record store -------------------------- *)
\* A table is a bag of rows; a row is
\*   [period, draw_date, numbers, special, amounts]
\* amounts = "null": prize_pool / sales_amount are NULL; "set": they hold the
\* formatted amounts.
Row(period, draw_date, numbers, special, amounts) ==
    [period |-> period, draw_date |-> draw_date, numbers |-> numbers,
     special |-> special, amounts |-> amounts]

HasSpecial(lottery_type) == lottery_type \in {"ssq", "qlc"}

\* plain INSERT: a second row of the same period is added
InsertRow(tbl, row) == tbl (+) SetToBag({row})

\* an upsert that updates the columns of an existing row except its amounts
SaveResultKeepingAmounts(tbl, row) ==
    LET kept == {r \in BagToSet(tbl) : r.period # row.period}
        old == {r \in BagToSet(tbl) : r.period = row.period}
        new == IF old = {} THEN row
               ELSE [row EXCEPT !.amounts = (CHOOSE r \in old : TRUE).amounts]
    IN  [r \in kept |-> tbl[r]] (+) SetToBag({new})

\* INSERT OR REPLACE on a table whose period column is UNIQUE
\* (save_ssq_result, save_3d_result, save_qlc_result, save_kl8_result)
SaveResult(tbl, row) ==
    LET kept == {r \in BagToSet(tbl) : r.period # row.period}
    IN  [r \in kept |-> tbl[r]] (+) SetToBag({row})

\* ORDER BY period DESC
RECURSIVE OrderByPeriodDesc(_)
OrderByPeriodDesc(tbl) ==
    IF BagToSet(tbl) = {} THEN << >>
    ELSE LET r == CHOOSE x \in BagToSet(tbl) :
                     \A y \in BagToSet(tbl) : y.period <= x.period
         IN  <<r>> \o OrderByPeriodDesc(tbl (-) SetToBag({r}))

\* the first n elements of a sequence (LIMIT n)
Limit(s, n) == SubSeq(s, 1, IF Len(s) < n THEN Len(s) ELSE n)

\* LotteryDatabase.get_historical_data(lottery_type, limit) on the tables st
DbGetHistoricalData(st, lottery_type, limit) ==
    IF lottery_type \in SupportedTypes
    THEN Limit(OrderByPeriodDesc(st[lottery_type]), limit)
    ELSE << >>

\* LotteryDatabase.get_latest_ssq / _3d / _qlc / _kl8: <<row>> or None
DbGetLatest(st, lottery_type) == Limit(OrderByPeriodDesc(st[lottery_type]), 1)

\* LotteryDatabase.update_number_statistics
RECURSIVE UpdateNumberStatistics(_, _)
UpdateNumberStatistics(freq, numbers) ==
    IF numbers = << >> THEN freq
    ELSE UpdateNumberStatistics(
             [freq EXCEPT ![Head(numbers)] = @ + 1], Tail(numbers))

(* ------------------------------- the state ------------------------------ *)
VARIABLES
    now,        \* datetime.now(), in ticks
    store,      \* store[t]: the result table of game type t
    stats,      \* stats[t][n]: number_statistics.frequency of number n
    call,       \* call[c]: the request served in slot c (locals and position)
    inflight,   \* slots whose HTTP request to the source is outstanding
    ops,        \* number of operations started so far
    probe       \* the last evaluation of a policy function on chosen inputs

vars == <<now, store, stats, call, inflight, ops, probe>>

NoProbe == [fn |-> "none"]

\* The locals of a request: db_results and should_update as in the code;
\* db_reads counts its queries of the record store, fetch_calls its calls of
\* _fetch_lottery_data; ret names the return statement it left by
\* ("cache", "fetch_failed", "exception", "fetched"); resp_kind is how its
\* HTTP request came back ("http", "timeout", "unreachable").
IdleCall ==
    [pc |-> "idle", op |-> "none", lottery_type |-> "dlt", periods |-> 0,
     db_results |-> << >>, should_update |-> FALSE,
     db_reads |-> 0, fetch_calls |-> 0,
     ret |-> "none", results |-> << >>, resp_kind |-> "none",
     success |-> FALSE, synced_count |-> 0, total_available |-> 0]

\* The database file outlives the process: at construction a table is empty
\* or still holds the oldest draw, saved by get_historical_data in an earlier
\* run (init_database creates the tables only if they do not exist).
InitTables(lottery_type) ==
    {EmptyBag} \cup
    {SetToBag({Row(i.code, i.date, i.red,
                   IF lottery_type \in {"ssq", "qlc"} THEN Blue ELSE NoBlue,
                   "null")}) :
        i \in {j \in WellFormedItems : j.code = 1 /\ j.date = YmdwDate(0)}}

Init ==
    /\ now = NowStart
    /\ store \in [SupportedTypes -> UNION {InitTables(t) : t \in SupportedTypes}]
    /\ \A t \in SupportedTypes :
          store[t] \in (IF t \in ServedTypes THEN InitTables(t) ELSE {EmptyBag})
    /\ stats = [t \in SupportedTypes |-> [n \in Numbers |-> 0]]
    /\ call = [c \in Calls |-> IdleCall]
    /\ inflight = {}
    /\ ops = 0
    /\ probe = NoProbe

\* A handler that returned hands its value to the coroutine awaiting it in the
\* same task, before the event loop runs anything else.
Delivering == \E c \in Calls : call[c].pc = "done"

\* `await self.client.get(...)`: the request of slot c goes out
Request(c) == inflight \cup {c}

\* a request that is never taken off the wire
ReleaseNever(c) == inflight

\* a response that takes every outstanding request off the wire
ReleaseAll(c) == {}

\* the request of slot c came back (response, error or timeout)
Release(c) == inflight \ {c}

\* a new request is served in the first free slot
FreeSlot(c) ==
    /\ ~Delivering
    /\ call[c].pc = "idle"
    /\ \A d \in Calls : d < c => call[d].pc # "idle"

(* ------------------------------ conversions ----------------------------- *)
\* the dataclass LotteryResult
LotteryResult(lottery_type, period, draw_date, numbers, special_numbers,
              amounts) ==
    [lottery_type |-> lottery_type, period |-> period,
     draw_date |-> draw_date, numbers |-> numbers,
     special_numbers |-> special_numbers, amounts |-> amounts]

\* special_numbers=[row.blue_ball] / [row.special_number], or the default None
SpecialOf(lottery_type, special) ==
    IF HasSpecial(lottery_type) THEN <<special>> ELSE None

\* one database row as a LotteryResult
RowToResult(row, lottery_type) ==
    LotteryResult(lottery_type, row.period, row.draw_date, row.numbers,
                  SpecialOf(lottery_type, row.special), row.amounts)

\* SWLCService._convert_db_results_to_lottery_results, and the same loop
\* inlined in the cache-hit branch of get_historical_data
ConvertDbResults(db_results, lottery_type) ==
    IF lottery_type \in SupportedTypes
    THEN [i \in 1..Len(db_results) |-> RowToResult(db_results[i], lottery_type)]
    ELSE << >>

\* a save that loses the draw date
HistRowNoDate(item, lottery_type) ==
    Row(item.code, EmptyDate, item.red,
        IF HasSpecial(lottery_type) THEN Blue ELSE NoBlue, "null")

\* the row get_historical_data saves for a source item: no amounts given
HistRow(item, lottery_type) ==
    Row(item.code, item.date, item.red,
        IF HasSpecial(lottery_type) THEN Blue ELSE NoBlue, "null")

\* the row get_*_latest and force_sync_data save: with formatted amounts
FullRow(item, lottery_type) ==
    Row(item.code, item.date, item.red,
        IF HasSpecial(lottery_type) THEN Blue ELSE NoBlue, "set")

\* the LotteryResult get_historical_data builds for a source item
HistResult(item, lottery_type) ==
    LotteryResult(lottery_type, item.code, item.date, item.red,
                  SpecialOf(lottery_type, Blue), "null")

\* the numbers handed to update_number_statistics for an item
StatNumbers(item, lottery_type) ==
    IF HasSpecial(lottery_type) THEN item.red \o <<Blue>> ELSE item.red

(* -------------------------- get_historical_data ------------------------- *)
\* the decision without the continuity check
ShouldUpdateNoContinuity(db_results, lottery_type, periods, n) ==
    IF db_results = << >> THEN TRUE
    ELSE IF Len(db_results) < periods THEN TRUE
    ELSE ~IsDataFresh(db_results[1].draw_date, lottery_type, n)

\* the cache counts as short when it holds exactly the requested number
ShouldUpdateOffByOne(db_results, lottery_type, periods, n) ==
    IF db_results = << >> THEN TRUE
    ELSE IF Len(db_results) <= periods THEN TRUE
    ELSE IF ~IsDataFresh(db_results[1].draw_date, lottery_type, n) THEN TRUE
    ELSE IF ~CheckPeriodContinuity(db_results, lottery_type) THEN TRUE
    ELSE FALSE

\* the decision `should_update` of get_historical_data (server.py:482-498)
ShouldUpdate(db_results, lottery_type, periods, n) ==
    IF db_results = << >> THEN TRUE
    ELSE IF Len(db_results) < periods THEN TRUE
    ELSE IF ~IsDataFresh(db_results[1].draw_date, lottery_type, n) THEN TRUE
    ELSE IF ~CheckPeriodContinuity(db_results, lottery_type) THEN TRUE
    ELSE FALSE

\* a failed fetch that does not fall back to the rows read
NoFallback(db_results, lottery_type) == << >>

\* what get_historical_data returns when the fetch gave no data
\* (server.py:549-554)
FetchFailedResults(db_results, lottery_type) ==
    IF db_results # << >>
    THEN ConvertDbResults(db_results, lottery_type)
    ELSE << >>

\* the loop with `continue` taken for every item: nothing is appended
RECURSIVE HistLoopNoAppend(_, _, _, _)
HistLoopNoAppend(tbl, items, results, lottery_type) ==
    IF items = << >>
    THEN [tbl |-> tbl, results |-> results, raised |-> FALSE]
    ELSE LET item == Head(items) IN
         IF item.missing # "none"
         THEN [tbl |-> tbl, results |-> results, raised |-> TRUE]
         ELSE HistLoopNoAppend(SaveResult(tbl, HistRow(item, lottery_type)),
                               Tail(items), results, lottery_type)

\* The loop over data['result'] of get_historical_data (server.py:556-641):
\* saves each item and appends its LotteryResult; a malformed item raises and
\* leaves the loop with the rows saved so far.
RECURSIVE HistLoop(_, _, _, _)
HistLoop(tbl, items, results, lottery_type) ==
    IF items = << >>
    THEN [tbl |-> tbl, results |-> results, raised |-> FALSE]
    ELSE LET item == Head(items) IN
         IF item.missing # "none"
         THEN [tbl |-> tbl, results |-> results, raised |-> TRUE]
         ELSE HistLoop(SaveResult(tbl, HistRow(item, lottery_type)),
                       Tail(items),
                       Append(results, HistResult(item, lottery_type)),
                       lottery_type)

\* get_historical_data up to the await of the fetch (server.py:475-548)
HistStart(c, lottery_type, periods) ==
    /\ FreeSlot(c)
    /\ ops < MaxOps
    /\ ops' = ops + 1
    /\ LET db_results == DbGetHistoricalData(store, lottery_type, periods)
           should_update == ShouldUpdate(db_results, lottery_type, periods, now)
           started == [IdleCall EXCEPT !.op = "hist",
                          !.lottery_type = lottery_type, !.periods = periods,
                          !.db_results = db_results, !.db_reads = 1,
                          !.should_update = should_update]
       IN  IF ~should_update
           THEN /\ call' = [call EXCEPT ![c] =
                       [started EXCEPT !.pc = "done", !.ret = "cache",
                           !.results = ConvertDbResults(db_results, lottery_type)]]
                /\ UNCHANGED inflight
           ELSE IF lottery_type \notin SupportedTypes
           THEN \* _fetch_lottery_data returns None before any request
                /\ call' = [call EXCEPT ![c] =
                       [started EXCEPT !.pc = "done", !.ret = "fetch_failed",
                           !.fetch_calls = 1,
                           !.results = FetchFailedResults(db_results, lottery_type)]]
                /\ UNCHANGED inflight
           ELSE /\ call' = [call EXCEPT ![c] =
                       [started EXCEPT !.pc = "await", !.fetch_calls = 1]]
                /\ inflight' = Request(c)
    /\ UNCHANGED <<now, store, stats, probe>>

\* a refresh that empties the game's table before it looks at the response
HistResumeWiping(c, resp) ==
    /\ ~Delivering
    /\ call[c].pc = "await"
    /\ call[c].op = "hist"
    /\ c \in inflight
    /\ inflight' = inflight \ {c}
    /\ call' = [call EXCEPT ![c].pc = "done", ![c].resp_kind = resp.kind,
                             ![c].ret = "fetch_failed"]
    /\ store' = [t \in SupportedTypes |->
                    IF t = call[c].lottery_type THEN EmptyBag ELSE store[t]]
    /\ UNCHANGED <<now, stats, ops, probe>>

\* get_historical_data from the response of the fetch to its return
\* (server.py:97-106, 549-653)
HistResume(c, resp) ==
    /\ ~Delivering
    /\ call[c].pc = "await"
    /\ call[c].op = "hist"
    /\ c \in inflight
    /\ inflight' = Release(c)
    /\ LET lottery_type == call[c].lottery_type
           data == FetchLotteryData(resp)
           loop == HistLoop(store[lottery_type], data, << >>, lottery_type)
           store1 == [store EXCEPT ![lottery_type] = loop.tbl]
           again == DbGetHistoricalData(store1, lottery_type, call[c].periods)
       IN  IF data = None
           THEN /\ call' = [call EXCEPT ![c].pc = "done", ![c].resp_kind = resp.kind,
                       ![c].ret = "fetch_failed",
                       ![c].results =
                           FetchFailedResults(call[c].db_results, lottery_type)]
                /\ UNCHANGED store
           ELSE IF loop.raised
           THEN \* except branch: return what the store holds now
                /\ store' = store1
                /\ call' = [call EXCEPT ![c].pc = "done", ![c].resp_kind = resp.kind,
                       ![c].ret = "exception", ![c].db_reads = 2,
                       ![c].results =
                           IF again # << >>
                           THEN ConvertDbResults(again, lottery_type)
                           ELSE << >>]
           ELSE /\ store' = store1
                /\ call' = [call EXCEPT ![c].pc = "done", ![c].resp_kind = resp.kind,
                       ![c].ret = "fetched", ![c].results = loop.results]
    /\ UNCHANGED <<now, stats, ops, probe>>

(* ------------------------------ get_*_latest ---------------------------- *)
\* SWLCService._should_update_from_network; db_result is <<row>> or None
ShouldUpdateFromNetwork(db_result, lottery_type, n) ==
    IF db_result = None THEN TRUE
    ELSE IF db_result[1].draw_date.fmt = "empty" THEN TRUE
    ELSE IF ~IsDataFresh(db_result[1].draw_date, lottery_type, n) THEN TRUE
    ELSE FALSE

\* get_ssq_latest / get_3d_latest / get_qlc_latest / get_kl8_latest up to the
\* await of the fetch
LatestStart(c, lottery_type) ==
    /\ FreeSlot(c)
    /\ ops < MaxOps
    /\ ops' = ops + 1
    /\ LET db_result == DbGetLatest(store, lottery_type)
           should_update == ShouldUpdateFromNetwork(db_result, lottery_type, now)
           started == [IdleCall EXCEPT !.op = "latest",
                          !.lottery_type = lottery_type, !.periods = 1,
                          !.db_results = db_result, !.db_reads = 1,
                          !.should_update = should_update]
       IN  IF ~should_update
           THEN /\ call' = [call EXCEPT ![c] =
                       [started EXCEPT !.pc = "done", !.ret = "cache",
                           !.results = <<RowToResult(db_result[1], lottery_type)>>]]
                /\ UNCHANGED inflight
           ELSE /\ call' = [call EXCEPT ![c] =
                       [started EXCEPT !.pc = "await", !.fetch_calls = 1]]
                /\ inflight' = Request(c)
    /\ UNCHANGED <<now, store, stats, probe>>

\* get_*_latest from the response of the fetch to its return; results = << >>
\* stands for the return value None
LatestResume(c, resp) ==
    /\ ~Delivering
    /\ call[c].pc = "await"
    /\ call[c].op = "latest"
    /\ c \in inflight
    /\ inflight' = Release(c)
    /\ LET lottery_type == call[c].lottery_type
           data == FetchLotteryData(resp)
           result_data == data[1]
       IN  IF data = None
           THEN /\ call' = [call EXCEPT ![c].pc = "done", ![c].resp_kind = resp.kind,
                       ![c].ret = "fetch_failed", ![c].results = None]
                /\ UNCHANGED <<store, stats>>
           ELSE IF result_data.missing # "none"
           THEN /\ call' = [call EXCEPT ![c].pc = "done", ![c].resp_kind = resp.kind,
                       ![c].ret = "exception", ![c].results = None]
                /\ UNCHANGED <<store, stats>>
           ELSE /\ store' = [store EXCEPT ![lottery_type] =
                       SaveResult(@, FullRow(result_data, lottery_type))]
                /\ stats' = [stats EXCEPT ![lottery_type] =
                       UpdateNumberStatistics(@,
                           StatNumbers(result_data, lottery_type))]
                /\ call' = [call EXCEPT ![c].pc = "done", ![c].resp_kind = resp.kind,
                       ![c].ret = "fetched",
                       ![c].results =
                           <<RowToResult(FullRow(result_data, lottery_type),
                                         lottery_type)>>]
    /\ UNCHANGED <<now, ops, probe>>

(* ----------------------------- force_sync_data -------------------------- *)
\* The loop over data['result'] of force_sync_data (server.py:731-836): every
\* item is handled in its own try; an item without 'red' is skipped, an item
\* without 'code' raises again inside the handler and leaves the loop.
RECURSIVE SyncLoop(_, _, _, _, _)
SyncLoop(tbl, freq, items, synced_count, lottery_type) ==
    IF items = << >>
    THEN [tbl |-> tbl, freq |-> freq, synced_count |-> synced_count,
          raised |-> FALSE]
    ELSE LET item == Head(items) IN
         IF item.missing = "red"
         THEN SyncLoop(tbl, freq, Tail(items), synced_count, lottery_type)
         ELSE IF item.missing = "code"
         THEN [tbl |-> tbl, freq |-> freq, synced_count |-> synced_count,
               raised |-> TRUE]
         ELSE SyncLoop(SaveResult(tbl, FullRow(item, lottery_type)),
                       UpdateNumberStatistics(freq,
                           StatNumbers(item, lottery_type)),
                       Tail(items), synced_count + 1, lottery_type)

\* force_sync_data up to the await of the fetch (server.py:705-720)
SyncStart(c, lottery_type, periods) ==
    /\ FreeSlot(c)
    /\ ops < MaxOps
    /\ ops' = ops + 1
    /\ LET started == [IdleCall EXCEPT !.op = "sync",
                          !.lottery_type = lottery_type, !.periods = periods,
                          !.should_update = TRUE]
       IN  IF lottery_type \notin SupportedTypes
           THEN /\ call' = [call EXCEPT ![c] =
                       [started EXCEPT !.pc = "done", !.ret = "fetch_failed",
                           !.fetch_calls = 1]]
                /\ UNCHANGED inflight
           ELSE /\ call' = [call EXCEPT ![c] =
                       [started EXCEPT !.pc = "await", !.fetch_calls = 1]]
                /\ inflight' = Request(c)
    /\ UNCHANGED <<now, store, stats, probe>>

\* force_sync_data from the response of the fetch to its return
SyncResume(c, resp) ==
    /\ ~Delivering
    /\ call[c].pc = "await"
    /\ call[c].op = "sync"
    /\ c \in inflight
    /\ inflight' = Release(c)
    /\ LET lottery_type == call[c].lottery_type
           data == FetchLotteryData(resp)
           loop == SyncLoop(store[lottery_type], stats[lottery_type], data, 0,
                            lottery_type)
       IN  IF data = None
           THEN /\ call' = [call EXCEPT ![c].pc = "done", ![c].resp_kind = resp.kind,
                       ![c].ret = "fetch_failed"]
                /\ UNCHANGED <<store, stats>>
           ELSE /\ store' = [store EXCEPT ![lottery_type] = loop.tbl]
                /\ stats' = [stats EXCEPT ![lottery_type] = loop.freq]
                /\ IF loop.raised
                   THEN call' = [call EXCEPT ![c].pc = "done", ![c].resp_kind = resp.kind,
                            ![c].ret = "exception"]
                   ELSE call' = [call EXCEPT ![c].pc = "done", ![c].resp_kind = resp.kind,
                            ![c].ret = "fetched", ![c].success = TRUE,
                            ![c].synced_count = loop.synced_count,
                            ![c].total_available = Len(data)]
    /\ UNCHANGED <<now, ops, probe>>

(* ------------------------------ environment ----------------------------- *)
\* the caller takes the returned value; the slot serves the next request
Return(c) ==
    /\ call[c].pc = "done"
    /\ call' = [call EXCEPT ![c] = IdleCall]
    /\ UNCHANGED <<now, store, stats, inflight, ops, probe>>

\* time passes
Tick ==
    /\ ~Delivering
    /\ now < MaxNow
    /\ now' = now + 1
    /\ UNCHANGED <<store, stats, call, inflight, ops, probe>>

Next ==
    \/ \E c \in Calls, t \in ServedTypes, p \in Counts : HistStart(c, t, p)
    \/ \E c \in Calls : \E resp \in Responses(call[c].periods) : HistResume(c, resp)
    \/ \E c \in Calls, t \in ServedTypes \cap SupportedTypes : LatestStart(c, t)
    \/ \E c \in Calls : \E resp \in Responses(1) : LatestResume(c, resp)
    \/ \E c \in Calls, t \in ServedTypes, p \in Counts : SyncStart(c, t, p)
    \/ \E c \in Calls : \E resp \in Responses(call[c].periods) : SyncResume(c, resp)
    \/ \E c \in Calls : Return(c)
    \/ Tick

Spec == Init /\ [][Next]_vars

TypeOK ==
    /\ now \in NowStart..MaxNow
    /\ inflight \subseteq Calls
    /\ ops \in 0..MaxOps
    /\ \A c \in Calls : call[c].pc \in {"idle", "await", "done"}

(* --------------------- the freshness policy on its own ------------------ *)
MaxAge == 4         \* ages of up to MaxAge days are probed

ProbeNows == 0..(TicksPerDay * (MaxDay + MaxAge) + 1)

\* nothing is served while the policy functions are probed
InitFresh ==
    /\ now = 0
    /\ store = [t \in SupportedTypes |-> EmptyBag]
    /\ stats = [t \in SupportedTypes |-> [n \in Numbers |-> 0]]
    /\ call = [c \in Calls |-> IdleCall]
    /\ inflight = {}
    /\ ops = 0
    /\ probe = NoProbe

\* one call _is_data_fresh(draw_date, lottery_type) at time n
CheckFresh(draw_date, lottery_type, n) ==
    /\ probe' = [fn |-> "is_data_fresh", draw_date |-> draw_date,
                 lottery_type |-> lottery_type, n |-> n,
                 out |-> IsDataFresh(draw_date, lottery_type, n)]
    /\ UNCHANGED <<now, store, stats, call, inflight, ops>>

NextFresh ==
    \E draw_date \in DateStrs, lottery_type \in Types, n \in ProbeNows :
        CheckFresh(draw_date, lottery_type, n)

SpecFresh == InitFresh /\ [][NextFresh]_vars

(* ------------------------------------------------------------------------ *)
(* C10: _is_data_fresh(drawDate, gameType) is true exactly when the number  *)
(* of whole days between drawDate and now is at most the game's maximum     *)
(* fresh age: 3 days for ssq and qlc, 1 day for 3d and kl8, 2 days for any  *)
(* other type; and false when it is larger (drawDate a parsable date,       *)
(* with or without the weekday suffix).                                     *)
(* ------------------------------------------------------------------------ *)
\* k whole days lie between day d and tick n
WholeDaysBetween(d, n) ==
    CHOOSE k \in (0 - MaxDay - 1)..(MaxDay + MaxAge + 1) :
        /\ (d + k) * TicksPerDay <= n
        /\ n < (d + k + 1) * TicksPerDay

MaxFreshAgeDays(lottery_type) ==
    IF lottery_type \in {"ssq", "qlc"} THEN 3
    ELSE IF lottery_type \in {"3d", "kl8"} THEN 1
    ELSE 2

C10_FreshIffWithinMaxAge ==
    (probe.fn = "is_data_fresh" /\ probe.draw_date.fmt \in {"ymd", "ymdw"})
    => (probe.out <=>
          (WholeDaysBetween(probe.draw_date.day, probe.n)
              <= MaxFreshAgeDays(probe.lottery_type)))

\* a date exactly at the limit was found fresh, with the weekday suffix
C10_Witness ==
    /\ probe.fn = "is_data_fresh"
    /\ probe.draw_date.fmt = "ymdw"
    /\ probe.lottery_type = "qlc"
    /\ WholeDaysBetween(probe.draw_date.day, probe.n) = 3
    /\ probe.n = probe.draw_date.day * TicksPerDay + 3 * TicksPerDay + 1
    /\ probe.out

(* ======================= properties of the history cache ================ *)
HistCall(c) == call[c].op = "hist"
Done(c) == call[c].pc = "done"
Awaiting(c) == call[c].pc = "await"

\* the periods of a sequence of rows or results, in order
PeriodsOf(s) == [i \in 1..Len(s) |-> s[i].period]

\* the rows of game type t, newest period first
StoredRows(t) == OrderByPeriodDesc(store[t])

(* ------------------------------------------------------------------------ *)
(* C1: when two or more callers invoke get_historical_data concurrently for *)
(* the same game type while its cached data is stale, the source fetch is   *)
(* issued once: in every reachable state at most one fetch is in flight for *)
(* one game type.                                                           *)
(* ------------------------------------------------------------------------ *)
\* caller c read a full but outdated (or gapped) cache and went to the source
StaleCaller(c) ==
    /\ HistCall(c)
    /\ call[c].should_update
    /\ call[c].db_results # << >>
    /\ Len(call[c].db_results) >= call[c].periods

C1_AtMostOneFetchInFlight ==
    \A t \in SupportedTypes :
        Cardinality({c \in inflight :
                        StaleCaller(c) /\ call[c].lottery_type = t}) <= 1

(* ------------------------------------------------------------------------ *)
(* C2: for every supported game type, when the store holds at least `count` *)
(* records, the freshest of them is fresh and the retrieved records show no *)
(* continuity gap, get_historical_data(type, count) returns the cached      *)
(* records and never calls the network fetch.                               *)
(* ------------------------------------------------------------------------ *)
C2_FreshCacheNeverFetches ==
    [][\A c \in Calls :
        (call[c].pc = "idle" /\ call'[c].op = "hist"
            /\ call'[c].lottery_type \in SupportedTypes)
        => LET t == call'[c].lottery_type
               count == call'[c].periods
               retrieved == Limit(StoredRows(t), count)
           IN  (/\ BagCardinality(store[t]) >= count
                /\ IsDataFresh(retrieved[1].draw_date, t, now)
                /\ CheckPeriodContinuity(retrieved, t))
               => /\ call'[c].pc = "done"
                  /\ PeriodsOf(call'[c].results) = PeriodsOf(retrieved)
                  /\ \A i \in 1..count :
                        /\ call'[c].results[i].draw_date = retrieved[i].draw_date
                        /\ call'[c].results[i].numbers = retrieved[i].numbers
                        /\ call'[c].results[i].amounts = retrieved[i].amounts
                  /\ call'[c].fetch_calls = 0
                  /\ inflight' = inflight
                  /\ store' = store]_vars

\* a request for two records was answered from the cache
C2_Witness ==
    \E c \in Calls :
        /\ Done(c) /\ HistCall(c)
        /\ call[c].ret = "cache"
        /\ call[c].periods = 2
        /\ Len(call[c].results) = 2
        /\ call[c].fetch_calls = 0
        /\ c \notin inflight

C4_NoDataIsSurfaced ==
    \A c \in Calls :
        (Done(c) /\ HistCall(c) /\ call[c].lottery_type \in SupportedTypes)
        => ((call[c].results = << >>)
              <=> \/ /\ call[c].ret = "fetch_failed"
                     /\ call[c].db_results = << >>
                  \/ /\ call[c].ret = "exception"
                     /\ store[call[c].lottery_type] = EmptyBag)

\* the fetch failed on an empty store and the caller got the failure value
C4_Witness ==
    \E c \in Calls :
        /\ Done(c) /\ HistCall(c)
        /\ call[c].lottery_type \in SupportedTypes
        /\ call[c].ret = "fetch_failed"
        /\ call[c].db_results = << >>
        /\ store[call[c].lottery_type] = EmptyBag
        /\ call[c].results = << >>

(* ------------------------------------------------------------------------ *)
(* C5: get_historical_data called with a game type outside the supported    *)
(* set fails fast with an UnsupportedGameType error: that call attempts no  *)
(* read of the record store and no network fetch.                           *)
(* ------------------------------------------------------------------------ *)
C5_UnsupportedFailsFast ==
    \A c \in Calls :
        (HistCall(c) /\ call[c].lottery_type \notin SupportedTypes)
        => /\ call[c].db_reads = 0
           /\ c \notin inflight
           /\ Done(c) => call[c].ret = "unsupported"

(* ------------------------------------------------------------------------ *)
(* C6: get_historical_data decides to refresh if and only if the store      *)
(* returned fewer than `count` records, or the freshest returned record is  *)
(* not fresh, or the continuity check reports a gap over the returned       *)
(* records; in every other case it returns the cached set as-is.            *)
(* ------------------------------------------------------------------------ *)
C6_RefreshIffShortStaleOrGap ==
    [][\A c \in Calls :
        (call[c].pc = "idle" /\ call'[c].op = "hist")
        => LET r == call'[c]
               t == r.lottery_type
               returned == r.db_results
               short == Len(returned) < r.periods
               stale == returned # << >>
                           /\ ~IsDataFresh(returned[1].draw_date, t, now)
               gap == ~CheckPeriodContinuity(returned, t)
           IN  /\ returned = DbGetHistoricalData(store, t, r.periods)
               /\ r.should_update <=> (short \/ stale \/ gap)
               /\ r.should_update => (r.fetch_calls = 1 /\ r.ret # "cache")
               /\ ~r.should_update =>
                     /\ r.pc = "done" /\ r.ret = "cache"
                     /\ r.fetch_calls = 0
                     /\ PeriodsOf(r.results) = PeriodsOf(returned)
                     /\ Len(r.results) = r.periods]_vars

\* a full cache with a fresh newest record is refreshed because of a gap alone
C6_Witness ==
    \E c \in Calls :
        /\ Awaiting(c) /\ HistCall(c)
        /\ call[c].should_update
        /\ Len(call[c].db_results) = call[c].periods
        /\ IsDataFresh(call[c].db_results[1].draw_date, call[c].lottery_type, now)
        /\ ~CheckPeriodContinuity(call[c].db_results, call[c].lottery_type)

(* ------------------------------------------------------------------------ *)
(* C7: after a successful refresh get_historical_data returns the           *)
(* deduplicated merge of the records already in the store and the fetched   *)
(* records, in descending period order with no period appearing twice, not  *)
(* only the batch the source returned.                                      *)
(* ------------------------------------------------------------------------ *)
\* (while a result is handed over nothing else runs, so store[t] is the
\* table as the refresh left it: the stored records merged with the batch;
\* the merge is accepted whole or cut to the requested count)
C7_RefreshReturnsMerge ==
    \A c \in Calls :
        (Done(c) /\ HistCall(c) /\ call[c].ret = "fetched")
        => LET merged == StoredRows(call[c].lottery_type)
           IN  \/ PeriodsOf(call[c].results) = PeriodsOf(merged)
               \/ PeriodsOf(call[c].results)
                      = PeriodsOf(Limit(merged, call[c].periods))

(* ------------------------------------------------------------------------ *)
(* C8: after any sequence of get_*_latest, get_historical_data and          *)
(* force_sync_data operations each game type's table holds at most one      *)
(* record per period: saving a record whose period already exists replaces  *)
(* that record instead of adding a second one, and saving the same record   *)
(* twice yields the same set of periods as saving it once.                  *)
(* ------------------------------------------------------------------------ *)
TablePeriods(tbl) == {r.period : r \in BagToSet(tbl)}

\* the rows the operations can save for game type t
SavableRows(t) ==
    {Row(i.code, i.date, i.red, IF HasSpecial(t) THEN Blue ELSE NoBlue, a) :
        i \in WellFormedItems, a \in {"null", "set"}}

C8_OneRecordPerPeriod ==
    \A t \in SupportedTypes :
        /\ BagCardinality(store[t]) = Cardinality(TablePeriods(store[t]))
        /\ \A row \in SavableRows(t) :
              LET once == SaveResult(store[t], row)
                  twice == SaveResult(once, row)
              IN  /\ CopiesIn(row, once) = 1
                  /\ BagCardinality(once) = Cardinality(TablePeriods(once))
                  /\ TablePeriods(once) = TablePeriods(store[t]) \cup {row.period}
                  /\ TablePeriods(twice) = TablePeriods(once)
                  /\ BagCardinality(twice) = BagCardinality(once)

\* one batch saved the same period twice with different dates and the table
\* holds the later record only
C8_Witness ==
    \E c \in Calls :
        /\ Done(c) /\ HistCall(c) /\ call[c].ret = "fetched"
        /\ Len(call[c].results) = 2
        /\ call[c].results[1].period = call[c].results[2].period
        /\ call[c].results[1].draw_date # call[c].results[2].draw_date
        /\ \A r \in BagToSet(store[call[c].lottery_type]) :
              r.period = call[c].results[2].period
                  => r.draw_date = call[c].results[2].draw_date
        /\ BagCardinality(store[call[c].lottery_type]) = 1

(* ------------------------------------------------------------------------ *)
(* C9: whenever a refresh of a game type ends (success, partial success,    *)
(* fetch failure or an exception part-way through the batch) no in-flight   *)
(* marker remains held for it, so a later get_historical_data call that     *)
(* needs a refresh starts a new fetch: a failed refresh never blocks        *)
(* retries.                                                                 *)
(* ------------------------------------------------------------------------ *)
C9_RefreshEndReleases ==
    [][/\ inflight' = {c \in Calls : call'[c].pc = "await"}
       /\ \A c \in Calls :
            (call[c].pc = "idle" /\ call'[c].op = "hist"
                /\ call'[c].should_update
                /\ call'[c].lottery_type \in SupportedTypes)
            => (call'[c].pc = "await" /\ c \in inflight')]_vars

\* a refresh ended in a failure or an exception and nothing stays in flight
\* for its game type, while a further operation can still start
C9_Witness ==
    \E c \in Calls :
        /\ Done(c) /\ HistCall(c)
        /\ call[c].should_update
        /\ call[c].lottery_type \in SupportedTypes
        /\ call[c].ret \in {"fetch_failed", "exception"}
        /\ inflight = {}
        /\ ops < MaxOps

(* ------------------------------------------------------------------------ *)
(* C11: the freshness check fails closed: for a draw date that is empty or  *)
(* is not a YYYY-MM-DD date (after stripping the weekday suffix)            *)
(* _is_data_fresh returns false, and a get_historical_data or get_*_latest  *)
(* call whose newest stored record carries such a date goes to the source   *)
(* instead of answering from the cache.                                     *)
(* ------------------------------------------------------------------------ *)
Unparsable(draw_date) == draw_date.fmt \in {"empty", "bad"}

C11_FreshnessFailsClosed ==
    [][/\ \A d \in DateStrs, t \in Types :
             Unparsable(d) => ~IsDataFresh(d, t, now)
       /\ \A c \in Calls :
             (/\ call[c].pc = "idle"
              /\ call'[c].op \in {"hist", "latest"}
              /\ call'[c].lottery_type \in SupportedTypes
              /\ call'[c].db_results # << >>
              /\ Unparsable(call'[c].db_results[1].draw_date))
             => /\ call'[c].should_update
                /\ call'[c].pc = "await"
                /\ call'[c].ret # "cache"
                /\ c \in inflight']_vars

\* a call that read enough records, the newest with an unreadable date, is
\* waiting for the source
C11_Witness ==
    \E c \in Calls :
        /\ HistCall(c) /\ Awaiting(c)
        /\ call[c].db_results # << >>
        /\ Len(call[c].db_results) >= call[c].periods
        /\ Unparsable(call[c].db_results[1].draw_date)
        /\ c \in inflight

(* -------------------- the continuity check on its own ------------------- *)
MaxSpan == 6        \* draw dates of the probed rows lie on days 0..MaxSpan
MaxRows == 3        \* at most MaxRows rows are handed to the check

SpanDateStrs ==
    {YmdDate(d) : d \in 0..MaxSpan} \cup {YmdwDate(d) : d \in 0..MaxSpan}
        \cup {EmptyDate, BadDate}

\* rows as get_historical_data reads them, newest period first, carrying
\* the dates ds
ProbeRows(ds) ==
    [i \in 1..Len(ds) |-> [period |-> Len(ds) + 1 - i, draw_date |-> ds[i]]]

\* one call _check_period_continuity(db_results, lottery_type); the function
\* keeps no state, so one call per behaviour covers it
CheckContinuity(db_results, lottery_type) ==
    /\ probe = NoProbe
    /\ probe' = [fn |-> "check_period_continuity", db_results |-> db_results,
                 lottery_type |-> lottery_type,
                 out |-> CheckPeriodContinuity(db_results, lottery_type)]
    /\ UNCHANGED <<now, store, stats, call, inflight, ops>>

NextContinuity ==
    /\ probe = NoProbe
    /\ \E k \in 0..MaxRows :
          \E ds \in [1..k -> SpanDateStrs], lottery_type \in Types :
              CheckContinuity(ProbeRows(ds), lottery_type)

SpecContinuity == InitFresh /\ [][NextContinuity]_vars

\* the check was probed; HasGap is the negation of its result
ContinuityProbed == probe.fn = "check_period_continuity"
HasGap == ~probe.out

MaxContinuityGapDays(lottery_type) ==
    IF lottery_type \in {"ssq", "qlc"} THEN 4
    ELSE IF lottery_type \in {"3d", "kl8"} THEN 2
    ELSE 3

HasDate(row) == row.draw_date.fmt \in {"ymd", "ymdw"}

\* the rows of the probe that carry a readable date, in order
DatedRows == SelectSeq(probe.db_results, HasDate)

\* days from the older to the newer of the adjacent rows i, i+1 of s
GapDays(s, i) == s[i].draw_date.day - s[i + 1].draw_date.day

(* ------------------------------------------------------------------------ *)
(* C12: the continuity check reports no gap for fewer than 2 records; for   *)
(* records that all carry a date it reports a gap exactly when some         *)
(* adjacent pair (newer, older) lies more than the game's maximum           *)
(* continuity gap apart: 4 days for ssq and qlc, 2 days for 3d and kl8,     *)
(* 3 days otherwise.                                                        *)
(* ------------------------------------------------------------------------ *)
C12_GapIffAdjacentPairTooFar ==
    ContinuityProbed =>
        /\ Len(probe.db_results) < 2 => ~HasGap
        /\ (\A i \in 1..Len(probe.db_results) : HasDate(probe.db_results[i]))
              => (HasGap <=>
                    \E i \in 1..(Len(probe.db_results) - 1) :
                        GapDays(probe.db_results, i)
                            > MaxContinuityGapDays(probe.lottery_type))

\* three dated rows, the two older ones one day over the limit apart
C12_Witness ==
    /\ ContinuityProbed
    /\ probe.lottery_type = "ssq"
    /\ Len(probe.db_results) = 3
    /\ \A i \in 1..3 : HasDate(probe.db_results[i])
    /\ GapDays(probe.db_results, 1) = 1
    /\ GapDays(probe.db_results, 2) = 5
    /\ HasGap

(* ------------------------------------------------------------------------ *)
(* C13: in the continuity check, records whose draw date is missing or      *)
(* unparsable are skipped without aborting the check: the result is the     *)
(* one the check gives on the remaining records alone, and when fewer than  *)
(* two parsable dates remain the check reports no gap.                      *)
(* ------------------------------------------------------------------------ *)
C13_UnparsableDatesAreSkipped ==
    ContinuityProbed =>
        /\ Len(DatedRows) < 2 => ~HasGap
        /\ HasGap <=> \E i \in 1..(Len(DatedRows) - 1) :
                          GapDays(DatedRows, i)
                              > MaxContinuityGapDays(probe.lottery_type)

\* C13 as stated: two or fewer parsable dates remaining means no gap
C13_TwoOrFewerDatesMeanNoGap ==
    ContinuityProbed => (Len(DatedRows) <= 2 => ~HasGap)

\* an unreadable date between two dated rows too far apart: the row is
\* skipped and the two remaining dates are compared
C13_Witness ==
    /\ ContinuityProbed
    /\ probe.lottery_type = "3d"
    /\ Len(probe.db_results) = 3
    /\ probe.db_results[2].draw_date = BadDate
    /\ Len(DatedRows) = 2
    /\ GapDays(DatedRows, 1) = 3
    /\ HasGap

(* ------------------------------------------------------------------------ *)
(* C14: during a refresh a malformed source record (one that lacks its      *)
(* numbers or its period field) is skipped and not upserted, while every    *)
(* well-formed record of the same batch is still upserted and returned by   *)
(* get_historical_data; one malformed record never aborts the batch, in     *)
(* get_historical_data and in force_sync_data alike.                        *)
(* ------------------------------------------------------------------------ *)
WellFormed(item) == item.missing = "none"

\* the table after every well-formed item of the batch has been upserted
RECURSIVE UpsertWellFormed(_, _, _, _)
UpsertWellFormed(tbl, items, lottery_type, amounts) ==
    IF items = << >> THEN tbl
    ELSE LET item == Head(items)
             row == Row(item.code, item.date, item.red,
                        IF lottery_type \in {"ssq", "qlc"} THEN Blue ELSE NoBlue,
                        amounts)
         IN  UpsertWellFormed(IF WellFormed(item) THEN SaveResult(tbl, row)
                                                  ELSE tbl,
                              Tail(items), lottery_type, amounts)

C14_MalformedRecordIsSkipped ==
    [][\A c \in Calls : \A resp \in Responses(call[c].periods) :
          LET t == call[c].lottery_type
              data == FetchLotteryData(resp)
          IN  /\ (HistResume(c, resp) /\ data # None)
                 => /\ store'[t] = UpsertWellFormed(store[t], data, t, "null")
                    /\ \A i \in 1..Len(data) :
                          WellFormed(data[i])
                          => \E j \in 1..Len(call'[c].results) :
                                call'[c].results[j].period = data[i].code
              /\ (SyncResume(c, resp) /\ data # None)
                 => store'[t] = UpsertWellFormed(store[t], data, t, "set")]_vars

(* ------------------------------------------------------------------------ *)
(* C15: a fetch that times out leads get_historical_data to the same        *)
(* outcome as any other fetch failure (unreachable source, non-success      *)
(* status, unusable payload): the call returns the records it read from the *)
(* store and the store is not modified.                                     *)
(* ------------------------------------------------------------------------ *)
TimeoutResp == [kind |-> "timeout", status |-> 0, state |-> 0, result |-> << >>]

\* the request did not come back with a usable batch
FetchFails(resp) ==
    \/ resp.kind # "http"
    \/ resp.status # 200
    \/ resp.state # 0
    \/ resp.result = << >>

\* the post-state of slot c apart from the record of how the request ended
Outcome(r) == [r EXCEPT !.resp_kind = "none"]

\* what every failed fetch leaves of the call: the records it had read
Degraded(r) ==
    [Outcome(r) EXCEPT !.pc = "done", !.ret = "fetch_failed",
        !.results = ConvertDbResults(r.db_results, r.lottery_type)]

C15_TimeoutIsAnyFetchFailure ==
    [][\A c \in Calls : \A resp \in Responses(call[c].periods) \cup {TimeoutResp} :
          (FetchFails(resp) /\ HistResume(c, resp))
          => /\ store' = store
             /\ stats' = stats
             /\ c \notin inflight'
             /\ Outcome(call'[c]) = Degraded(call[c])]_vars

\* a call that had read a record got it back after its fetch timed out
C15_Witness ==
    \E c \in Calls :
        /\ Done(c) /\ HistCall(c)
        /\ call[c].resp_kind = "timeout"
        /\ call[c].db_results # << >>
        /\ PeriodsOf(call[c].results) = PeriodsOf(call[c].db_results)
        /\ c \notin inflight

(* ------------------------------------------------------------------------ *)
(* C16: for the latest-result operations (get_ssq_latest, get_3d_latest,    *)
(* get_qlc_latest, get_kl8_latest): when a cached latest record exists but  *)
(* is stale and the fetch fails, the cached record is returned; a failure   *)
(* result is returned only when there is neither a cached record nor a      *)
(* successful fetch.                                                        *)
(* ------------------------------------------------------------------------ *)
LatestCall(c) == call[c].op = "latest"

C16_LatestFallsBackToCache ==
    \A c \in Calls :
        (Done(c) /\ LatestCall(c))
        => /\ (call[c].db_results # << >> /\ call[c].ret = "fetch_failed")
                => PeriodsOf(call[c].results) = PeriodsOf(call[c].db_results)
           /\ call[c].results = None
                => (call[c].db_results = << >> /\ call[c].ret # "fetched")

(* ============================ the backtest engine ======================= *)
MaxHist == 5        \* histories of 0..MaxHist records are backtested
MaxWindow == 3      \* window_size ranges over 1..MaxWindow
MaxStep == 2        \* step ranges over 1..MaxStep
MaxMethods == 2      \* at most MaxMethods strategies are registered

\* self.methods of BacktestEngine, in registration order
Methods == <<"rule">>
MethodSet == {Methods[i] : i \in 1..Len(Methods)}

\* a quotient a / b of Python floats, kept as an exact fraction
Frac(a, b) == [num |-> a, den |-> b]
FracEq(x, y) == x.num * y.den = y.num * x.den
FracLess(x, y) == x.num * y.den < y.num * x.den

RECURSIVE SumSeq(_)
SumSeq(xs) == IF xs = << >> THEN 0 ELSE Head(xs) + SumSeq(Tail(xs))

\* round(a / b, 4) of a quotient of ten-thousandths: to the nearest unit,
\* halves to the even neighbour
Round4(a, b) ==
    LET q == a \div b
        r == a % b
    IN  IF 2 * r < b THEN q
        ELSE IF 2 * r > b THEN q + 1
        ELSE IF q % 2 = 0 THEN q ELSE q + 1

\* round(x, 4) of a Python float x = a / b ten-thousandths: when x lies
\* exactly between two ten-thousandths, the binary float nearest to x lies on
\* either side, and round gives either neighbour
Round4s(a, b) ==
    LET q == a \div b
        r == a % b
    IN  IF 2 * r < b THEN {q}
        ELSE IF 2 * r > b THEN {q + 1}
        ELSE {q, q + 1}

(* ------------------------------- scoring -------------------------------- *)
MaxPreds == 2       \* a prediction list holds at most MaxPreds candidates

\* the divisors of the scoring functions
SsqRedCount == 6
DigitCount == 3
QlcCount == 7
Kl8Count == 20

\* The lottery_type run_backtest receives is the code ("ssq", ...) from the
\* HTTP handler and the game's name from the MCP tool.
TypeNames == {"shuangseqiu", "fucai3d", "qilecai", "kuaile8"}
NameOf(code) ==
    CASE code = "ssq" -> "shuangseqiu"
      [] code = "3d" -> "fucai3d"
      [] code = "qlc" -> "qilecai"
      [] code = "kl8" -> "kuaile8"

ToSet(xs) == {xs[i] : i \in 1..Len(xs)}

\* draws of a game as the history carries them: `numbers` and, for the games
\* with a secondary number, `special_numbers` (None otherwise)
Draws(game) ==
    CASE game = "ssq" ->
            {[numbers |-> [i \in 1..SsqRedCount |-> i], special_numbers |-> <<1>>]}
      [] game = "3d" ->
            {[numbers |-> <<1, 2, 3>>, special_numbers |-> None],
             [numbers |-> <<2, 5, 5>>, special_numbers |-> None]}
      [] game = "qlc" ->
            {[numbers |-> [i \in 1..QlcCount |-> i], special_numbers |-> <<8>>]}
      [] game = "kl8" ->
            {[numbers |-> [i \in 1..Kl8Count |-> i], special_numbers |-> None]}

\* numbers no draw contains
Fresh(i) == 100 + i

\* A PredictionResult with n numbers: its first h numbers are the draw's
\* first h, the others occur nowhere in the draw; its special number is the
\* draw's ("hit") or another one ("miss").
Candidate(draw, n, h, blue) ==
    [numbers |-> [i \in 1..n |->
                     IF i <= h THEN draw.numbers[i] ELSE Fresh(i)],
     special_numbers |->
         IF blue = "hit" /\ draw.special_numbers # None
         THEN draw.special_numbers ELSE <<Fresh(0)>>]

\* the candidates with as many numbers as the draw
Candidates(draw) ==
    {Candidate(draw, Len(draw.numbers), h, blue) :
        h \in 0..Len(draw.numbers),
        blue \in IF draw.special_numbers # None THEN {"hit", "miss"}
                                                ELSE {"miss"}}

\* len(set(a) & set(b))
Hits(a, b) == Cardinality(ToSet(a) \cap ToSet(b))

\* _calculate_ssq_accuracy, in ten-thousandths
SsqAccuracy(red_hits, blue_hits) ==
    Frac(red_hits * 8000 + blue_hits * 2000 * SsqRedCount, SsqRedCount)

\* _calculate_3d_accuracy
ThreeDAccuracy(pred_numbers, actual_numbers) ==
    IF Len(pred_numbers) # DigitCount \/ Len(actual_numbers) # DigitCount
    THEN Frac(0, 1)
    ELSE Frac(10000 * Cardinality({i \in 1..DigitCount :
                                      pred_numbers[i] = actual_numbers[i]}),
              DigitCount)

\* _calculate_qlc_accuracy
QlcAccuracy(red_hits, blue_hits) ==
    Frac(red_hits * 8000 + blue_hits * 2000 * QlcCount, QlcCount)

\* a kl8 score that divides by half the pick count
Kl8AccuracyByHalf(pred_numbers, actual_numbers) ==
    Frac(10000 * Hits(pred_numbers, actual_numbers), Kl8Count \div 2)

\* _calculate_kl8_accuracy
Kl8Accuracy(pred_numbers, actual_numbers) ==
    Frac(10000 * Hits(pred_numbers, actual_numbers), Kl8Count)

\* the body of the loop of _calculate_prediction_accuracy: the accuracy of
\* one prediction (backtest.py:132-153)
AccuracyOf(prediction, actual_data, lottery_type) ==
    LET pred_numbers == prediction.numbers
        pred_special_numbers == prediction.special_numbers
        actual_numbers == actual_data.numbers
        actual_special_numbers == actual_data.special_numbers
        red_hits == Hits(pred_numbers, actual_numbers)
        blue_hits ==
            IF pred_special_numbers # << >> /\ actual_special_numbers # << >>
            THEN Hits(pred_special_numbers, actual_special_numbers)
            ELSE 0
    IN  CASE lottery_type = "ssq" -> SsqAccuracy(red_hits, blue_hits)
          [] lottery_type = "3d" -> ThreeDAccuracy(pred_numbers, actual_numbers)
          [] lottery_type = "qlc" -> QlcAccuracy(red_hits, blue_hits)
          [] lottery_type = "kl8" -> Kl8Accuracy(pred_numbers, actual_numbers)
          [] OTHER ->
                IF actual_numbers # << >>
                THEN Frac(10000 * red_hits, Len(actual_numbers))
                ELSE Frac(0, 1)

\* a loop that keeps the score of the last prediction
BestAccuracyLast(predictions, actual_data, lottery_type, best_accuracy) ==
    IF predictions = << >> THEN best_accuracy
    ELSE AccuracyOf(predictions[Len(predictions)], actual_data, lottery_type)

\* best_accuracy after the loop over the predictions
RECURSIVE BestAccuracy(_, _, _, _)
BestAccuracy(predictions, actual_data, lottery_type, best_accuracy) ==
    IF predictions = << >> THEN best_accuracy
    ELSE LET accuracy == AccuracyOf(Head(predictions), actual_data, lottery_type)
         IN  BestAccuracy(Tail(predictions), actual_data, lottery_type,
                          IF FracLess(best_accuracy, accuracy)
                          THEN accuracy ELSE best_accuracy)

\* an accuracy of 1.0 for an empty list of predictions
CalculatePredictionAccuracyEmptyFull(predictions, actual_data, lottery_type) ==
    IF predictions = << >> THEN 10000
    ELSE LET best == BestAccuracy(predictions, actual_data, lottery_type,
                                  Frac(0, 1))
         IN  Round4(best.num, best.den)

\* BacktestEngine._calculate_prediction_accuracy, in ten-thousandths (no
\* quotient by a pick count lies halfway between two ten-thousandths)
CalculatePredictionAccuracy(predictions, actual_data, lottery_type) ==
    IF predictions = << >> THEN 0
    ELSE LET best == BestAccuracy(predictions, actual_data, lottery_type,
                                  Frac(0, 1))
         IN  Round4(best.num, best.den)

\* a window loop that moves on by one record whatever the step
RangeEveryIndex(stop, step) ==
    [k \in 1..(IF stop <= 0 THEN 0 ELSE stop) |-> k - 1]

\* range(0, stop, step) for step >= 1
Range(stop, step) ==
    [k \in 1..(IF stop <= 0 THEN 0 ELSE ((stop - 1) \div step) + 1) |->
        (k - 1) * step]

\* RuleBasedPredictor.predict raises for a type it does not know, and so
\* does PredictionManager.predict, which only calls it again
PredictRaises(lottery_type) == lottery_type \notin SupportedTypes \cup TypeNames

\* count=5 in the call of predict; every PredictionResult of the predictor
\* has six numbers and one special number, whatever the type
PredictionCount == 5
PredictedNumbers == 6

Min(a, b) == IF a < b THEN a ELSE b

\* The list predict returns for a window whose target is `draw`.  The
\* predictor draws at random; what the run depends on is how much of the
\* target the best of the five predictions holds: nothing, one number, or
\* as many numbers as it has room for together with the special number.
Lucks == {"none", "one", "most"}
Predict(draw, luck) ==
    LET miss == Candidate(draw, PredictedNumbers, 0, "miss")
        best ==
            CASE luck = "none" -> miss
              [] luck = "one" -> Candidate(draw, PredictedNumbers, 1, "miss")
              [] luck = "most" ->
                    Candidate(draw, PredictedNumbers,
                              Min(PredictedNumbers, Len(draw.numbers)), "hit")
    IN  [i \in 1..PredictionCount |-> IF i = 1 THEN best ELSE miss]

\* max([r['accuracy'] for r in method_results.values()])
MaxAccuracy(methods, method_results) ==
    CHOOSE a \in {method_results[methods[i]].accuracy : i \in 1..Len(methods)} :
        \A i \in 1..Len(methods) : method_results[methods[i]].accuracy <= a

\* a selection that takes the last entry whatever the keys
BestOfLast(methods, key) == methods[Len(methods)]

\* a selection of the first entry whose key is the minimum
BestOfLowest(methods, key) ==
    methods[CHOOSE i \in 1..Len(methods) :
               /\ \A j \in 1..Len(methods) :
                     ~FracLess(key[methods[j]], key[methods[i]])
               /\ \A j \in 1..(i - 1) :
                     FracLess(key[methods[i]], key[methods[j]])]

\* max(d.items(), key=...)[0] for a dict d filled in the order of `methods`:
\* the first entry, in insertion order, whose key is the maximum
BestOf(methods, key) ==
    methods[CHOOSE i \in 1..Len(methods) :
               /\ \A j \in 1..Len(methods) :
                     ~FracLess(key[methods[i]], key[methods[j]])
               /\ \A j \in 1..(i - 1) :
                     FracLess(key[methods[j]], key[methods[i]])]

\* BacktestEngine._calculate_precision
CalculatePrecision(methods, method_results) ==
    Frac(SumSeq([i \in 1..Len(methods) |-> method_results[methods[i]].accuracy]),
         Len(methods))

\* a failed prediction that counts as a full hit
FailedFull == [predictions |-> << >>, accuracy |-> 10000]

\* the entry of method_results for a method whose prediction raised
Failed == [predictions |-> << >>, accuracy |-> 0]

\* One pass of the loop body of run_backtest (backtest.py:58-109) for the
\* window starting at index start_idx (counted from 0); luck[m] is the luck
\* of method m's predictions.  train_periods records the slice handed to
\* predict.
BacktestWindow(lottery_type, historical_data, window_size, start_idx, luck) ==
    LET end_idx == start_idx + window_size
        test_period == start_idx + window_size
        train_data == SubSeq(historical_data, start_idx + 1, end_idx)
        test_data == historical_data[test_period + 1]
        method_results ==
            [m \in MethodSet |->
                IF PredictRaises(lottery_type)
                THEN Failed
                ELSE [predictions |-> Predict(test_data, luck[m]),
                      accuracy |-> CalculatePredictionAccuracy(
                                       Predict(test_data, luck[m]), test_data,
                                       lottery_type)]]
    IN  [period |-> test_data.period,
         train_periods |-> [i \in 1..Len(train_data) |-> train_data[i].period],
         actual_numbers |-> test_data.numbers,
         actual_special_numbers |-> test_data.special_numbers,
         predictions |-> method_results,
         accuracy |-> MaxAccuracy(Methods, method_results),
         method |-> BestOf(Methods, [m \in MethodSet |->
                                        Frac(method_results[m].accuracy, 1)]),
         precision |-> CalculatePrecision(Methods, method_results)]

\* the mean without the division
MeanNoDivide(xs) == Frac(SumSeq(xs), 1)

\* sum(xs) / len(xs)
Mean(xs) == Frac(SumSeq(xs), Len(xs))

\* an average cut off after four decimals
AverageAccuraciesTruncated(results) ==
    IF results = << >> THEN {0}
    ELSE {SumSeq([i \in 1..Len(results) |-> results[i].accuracy])
              \div Len(results)}

\* round(average_accuracy, 4), the values the float arithmetic can give
AverageAccuracies(results) ==
    IF results = << >> THEN {0}
    ELSE Round4s(SumSeq([i \in 1..Len(results) |-> results[i].accuracy]),
                 Len(results))

\* BacktestEngine._generate_summary; average_accuracy is the rounded average
GenerateSummary(results, average_accuracy) ==
    LET chart_data ==
            [periods |-> [i \in 1..Len(results) |-> results[i].period],
             accuracy |-> [i \in 1..Len(results) |-> results[i].accuracy],
             precision |-> [i \in 1..Len(results) |-> results[i].precision]]
        IsOf(m) == [i \in 1..Len(results) |-> results[i].method = m]
        AccOf(m) ==
            LET RECURSIVE Pick(_)
                Pick(i) == IF i > Len(results) THEN << >>
                           ELSE (IF IsOf(m)[i] THEN <<results[i].accuracy>>
                                               ELSE << >>) \o Pick(i + 1)
            IN  Pick(1)
        strategy_performance ==
            [m \in MethodSet |->
                IF AccOf(m) # << >> THEN Mean(AccOf(m)) ELSE Frac(0, 1)]
    IN  IF results = << >>
        THEN [total_periods |-> 0, average_accuracy |-> 0,
              best_strategy |-> "", strategy_performance |-> << >>,
              chart_data |-> chart_data]
        ELSE [total_periods |-> Len(results),
              average_accuracy |-> average_accuracy,
              best_strategy |-> BestOf(Methods, strategy_performance),
              strategy_performance |-> strategy_performance,
              chart_data |-> chart_data]

NoSummary == [total_periods |-> 0 - 1]

\* the number of windows run_backtest evaluates
WindowCount(n, window_size, step) == Len(Range(n - window_size, step))

\* a run that counts into the number statistics
RunBacktestCounting(lottery_type, historical_data, window_size, step, luck) ==
    /\ probe = NoProbe
    /\ probe' = [fn |-> "run_backtest", lottery_type |-> lottery_type,
                 historical_data |-> historical_data,
                 window_size |-> window_size, step |-> step,
                 raised |-> TRUE, results |-> << >>, summary |-> NoSummary]
    /\ stats' = [t \in SupportedTypes |-> [n \in Numbers |-> stats[t][n] + 1]]
    /\ UNCHANGED <<now, store, call, inflight, ops>>

\* BacktestEngine.run_backtest(lottery_type, historical_data, window_size,
\* step); luck[k][m] is the luck of method m's predictions in the k-th
\* window.  The predictor never suspends, so the whole run is one step;
\* it keeps no state, so one run per behaviour covers it.
RunBacktest(lottery_type, historical_data, window_size, step, luck) ==
    /\ probe = NoProbe
    /\ LET n == Len(historical_data)
           starts == Range(n - window_size, step)
           results ==
               [k \in 1..Len(starts) |->
                   BacktestWindow(lottery_type, historical_data, window_size,
                                  starts[k], luck[k])]
           args == [fn |-> "run_backtest", lottery_type |-> lottery_type,
                    historical_data |-> historical_data,
                    window_size |-> window_size, step |-> step]
       IN  IF n < window_size
           THEN \* raise ValueError
                probe' = args @@ [raised |-> TRUE, results |-> << >>,
                                  summary |-> NoSummary]
           ELSE \E average_accuracy \in AverageAccuracies(results) :
                    probe' = args @@ [raised |-> FALSE, results |-> results,
                                      summary |-> GenerateSummary(
                                                     results, average_accuracy)]
    /\ UNCHANGED <<now, store, stats, call, inflight, ops>>

\* _calculate_prediction_accuracy on its own: a list of predictions against
\* a draw
Score(predictions, actual_data, lottery_type) ==
    /\ probe = NoProbe
    /\ probe' = [fn |-> "accuracy", predictions |-> predictions,
                 actual_data |-> actual_data, lottery_type |-> lottery_type,
                 accuracy |-> CalculatePredictionAccuracy(
                                  predictions, actual_data, lottery_type)]
    /\ UNCHANGED <<now, store, stats, call, inflight, ops>>

\* The two selections of run_backtest and _generate_summary on their own,
\* for an engine with the strategies `methods` registered in this order:
\* the window's accuracy and method from the strategies' accuracies
\* (backtest.py:100-101) ...
SelectWindowBest(methods, accuracies) ==
    /\ probe = NoProbe
    /\ LET method_results ==
               [m \in ToSet(methods) |->
                   [predictions |-> << >>, accuracy |-> accuracies[m]]]
       IN  probe' = [fn |-> "window_best", methods |-> methods,
                     accuracies |-> accuracies,
                     accuracy |-> MaxAccuracy(methods, method_results),
                     method |-> BestOf(methods,
                                       [m \in ToSet(methods) |->
                                           Frac(accuracies[m], 1)])]
    /\ UNCHANGED <<now, store, stats, call, inflight, ops>>

\* ... and best_strategy from strategy_performance (backtest.py:220)
SelectBestStrategy(methods, strategy_performance) ==
    /\ probe = NoProbe
    /\ probe' = [fn |-> "best_strategy", methods |-> methods,
                 strategy_performance |-> strategy_performance,
                 best_strategy |-> BestOf(methods, strategy_performance)]
    /\ UNCHANGED <<now, store, stats, call, inflight, ops>>

\* the game's draw of a period
DrawAt(game, period) ==
    IF game = "3d"
    THEN [numbers |-> IF period % 2 = 1 THEN <<1, 2, 3>> ELSE <<2, 5, 5>>,
          special_numbers |-> None]
    ELSE CHOOSE draw \in Draws(game) : TRUE

\* the history the handlers pass on: the n newest records as
\* get_historical_data returns them, newest period first
History(game, n) ==
    [i \in 1..n |-> [period |-> n + 1 - i] @@ DrawAt(game, n + 1 - i)]

\* lists of at most MaxPreds candidates for a draw
PredictionLists(draw) ==
    UNION {[1..k -> Candidates(draw)] : k \in 0..MaxPreds}

\* the strategies an engine can register, and the orders to register them in
MethodNames == {"rule", "frequency", "trend"}
MethodLists ==
    {methods \in UNION {[1..k -> MethodNames] : k \in 1..MaxMethods} :
        \A i, j \in 1..Len(methods) : i # j => methods[i] # methods[j]}

\* accuracies a strategy can reach in a window, in ten-thousandths
SomeAccuracies == {0, 5000, 10000}

\* the runs of the engine: every game, by code (HTTP handler), by name (MCP
\* tool) and under a type the predictor rejects
BacktestRuns ==
    \E game \in SupportedTypes, n \in 0..MaxHist,
       window_size \in 1..MaxWindow, step \in 1..MaxStep :
        \E lottery_type \in {game, NameOf(game), "dlt"} :
            \E luck \in [1..WindowCount(n, window_size, step) ->
                             [MethodSet -> Lucks]] :
                RunBacktest(lottery_type, History(game, n), window_size,
                            step, luck)

NextBacktest ==
    /\ probe = NoProbe
    /\ \/ BacktestRuns
       \/ \E game \in SupportedTypes :
              \E lottery_type \in {game, NameOf(game)}, draw \in Draws(game) :
                  \E predictions \in PredictionLists(draw) :
                      Score(predictions, draw, lottery_type)
       \/ \E methods \in MethodLists :
              \E accuracies \in [ToSet(methods) -> SomeAccuracies] :
                  SelectWindowBest(methods, accuracies)
       \/ \E methods \in MethodLists :
              \E accuracies \in [ToSet(methods) -> SomeAccuracies] :
                  SelectBestStrategy(methods,
                                     [m \in ToSet(methods) |->
                                         Frac(accuracies[m], 2)])

SpecBacktest == InitFresh /\ [][NextBacktest]_vars

(* --------------------- the engine beside a filled cache ------------------ *)
\* The service after one get_*_latest call that fetched and saved a draw:
\* the game's table holds its row and the number statistics count its
\* numbers.
InitEngine ==
    /\ now = NowStart
    /\ \E lottery_type \in SupportedTypes \cap ServedTypes,
          result_data \in WellFormedItems :
          /\ store = [t \in SupportedTypes |->
                         IF t = lottery_type
                         THEN SaveResult(EmptyBag,
                                         FullRow(result_data, lottery_type))
                         ELSE EmptyBag]
          /\ stats = [t \in SupportedTypes |->
                         IF t = lottery_type
                         THEN UpdateNumberStatistics(
                                  [n \in Numbers |-> 0],
                                  StatNumbers(result_data, lottery_type))
                         ELSE [n \in Numbers |-> 0]]
    /\ call = [c \in Calls |-> IdleCall]
    /\ inflight = {}
    /\ ops = 1
    /\ probe = NoProbe

NextEngine == probe = NoProbe /\ BacktestRuns

SpecEngine == InitEngine /\ [][NextEngine]_vars

\* run_backtest was called, and the arguments of the call
Backtested == probe.fn = "run_backtest"
Returned == Backtested /\ ~probe.raised

(* ----------------------------- the rule predictor ------------------------ *)
\* Bounds of the predictor's inputs: the length of the history it is given
\* and the seeds of its random generator.
MaxHistory == 1
MaxLuck == 1

RedMax == 33        \* predictor.py:49 range(1, 34)
BlueMax == 16       \* predictor.py:52 range(1, 17)
MaxPredictions == 20    \* api_server.py:399 Query(5, ge=1, le=20)

\* A number token is a string of digits, held as the sequence of its digits.
\* f"{i:02d}" for the numbers the predictor formats (1..33)
Token(i) == <<i \div 10, i % 10>>

\* int(x) of a token of one or two digits
IntOf(token) ==
    IF Len(token) = 1 THEN token[1] ELSE 10 * token[1] + token[2]

\* `for k, _ in medium`: medium is a list of tokens, not of pairs, so the
\* two characters of the token are unpacked and k is its first character
FirstOfPair(token) == <<token[1]>>

AllRed == [i \in 1..RedMax |-> Token(i)]
AllBlue == [i \in 1..BlueMax |-> Token(i)]

\* sorted(xs, key=...): a stable sort, ascending in key[x]; the items are
\* sorted as pairs <<key, item>>
RECURSIVE InsertByKey(_, _)
InsertByKey(pair, sorted) ==
    IF sorted = << >> THEN <<pair>>
    ELSE IF pair[1] < Head(sorted)[1] THEN <<pair>> \o sorted
    ELSE <<Head(sorted)>> \o InsertByKey(pair, Tail(sorted))

RECURSIVE SortPairs(_)
SortPairs(pairs) ==
    IF pairs = << >> THEN << >>
    ELSE InsertByKey(pairs[Len(pairs)],
                     SortPairs(SubSeq(pairs, 1, Len(pairs) - 1)))

SortByKey(xs, key) ==
    LET sorted == SortPairs([i \in DOMAIN xs |-> <<key[xs[i]], xs[i]>>])
    IN  [i \in DOMAIN xs |-> sorted[i][2]]

\* sorted(xs, key=lambda x: int(x))
SortByInt(xs) == SortByKey(xs, [t \in ToSet(xs) |-> IntOf(t)])

\* list(set(xs)): the elements of xs once each; the order is settled by the
\* sort that follows
RECURSIVE Distinct(_)
Distinct(xs) ==
    IF xs = << >> THEN << >>
    ELSE LET rest == Distinct(SubSeq(xs, 1, Len(xs) - 1))
             x == xs[Len(xs)]
         IN  IF x \in ToSet(rest) THEN rest ELSE Append(rest, x)

\* xs[:n]
Take(xs, n) == SubSeq(xs, 1, Min(n, Len(xs)))

\* [x for x in xs if x not in excluded]
Without(xs, excluded) == SelectSeq(xs, LAMBDA x : x \notin excluded)

\* random.shuffle: the generator can leave any permutation; the model takes
\* the rotation of the list by `luck`
Shuffle(xs, luck) ==
    IF xs = << >> THEN << >>
    ELSE [i \in 1..Len(xs) |-> xs[((i - 1 + luck) % Len(xs)) + 1]]

\* random.choice
Choice(xs, luck) == xs[(luck % Len(xs)) + 1]

\* how often the token occurs in the field of the history's records
\* (predictor.py:43-47)
RECURSIVE Occurrences(_, _, _)
Occurrences(historical_data, field, token) ==
    IF historical_data = << >> THEN 0
    ELSE Cardinality({j \in DOMAIN Head(historical_data)[field] :
                          Head(historical_data)[field][j] = token})
         + Occurrences(Tail(historical_data), field, token)

\* freq and blue_freq after the setdefault loops (predictor.py:41-54), for a
\* history whose tokens are numbers of the game
Freq(historical_data) ==
    [t \in ToSet(AllRed) |-> Occurrences(historical_data, "numbers", t)]
BlueFreq(historical_data) ==
    [t \in ToSet(AllBlue) |->
        Occurrences(historical_data, "special_numbers", t)]

\* the keys of hot, cold, medium and blue_sorted (predictor.py:56-59)
MaxFreq == MaxHistory + 1
Hot(freq) ==
    SortByKey(AllRed, [t \in ToSet(AllRed) |->
                          (MaxFreq - freq[t]) * 100 + IntOf(t)])
Cold(freq) ==
    SortByKey(AllRed, [t \in ToSet(AllRed) |-> freq[t] * 100 + IntOf(t)])
Abs(x) == IF x < 0 THEN 0 - x ELSE x
Medium(freq) ==
    LET total == SumSeq([i \in 1..RedMax |-> freq[AllRed[i]]])
    IN  SortByKey(AllRed,
            [t \in ToSet(AllRed) |->
                Abs(freq[t] * RedMax - total) * 100 + IntOf(t)])
BlueSorted(blue_freq) ==
    SortByKey(AllBlue, [t \in ToSet(AllBlue) |->
                           (MaxFreq - blue_freq[t]) * 100 + IntOf(t)])

\* the loop of pick_distinct (predictor.py:62-70)
RECURSIVE PickLoop(_, _, _, _)
PickLoop(candidates, k, res, seen) ==
    IF candidates = << >> THEN res
    ELSE LET n == Head(candidates) IN
         IF n \in seen THEN PickLoop(Tail(candidates), k, res, seen)
         ELSE IF Len(res) + 1 >= k THEN Append(res, n)
         ELSE PickLoop(Tail(candidates), k, Append(res, n), seen \cup {n})

\* pick_distinct (predictor.py:61-76)
PickDistinct(candidates, k, exclude, luck) ==
    LET res == PickLoop(candidates, k, << >>, exclude)
        seen == exclude \cup ToSet(res)
        pool == Shuffle(Without(AllRed, seen), luck)
    IN  SortByInt(IF Len(res) < k THEN res \o Take(pool, k - Len(res))
                  ELSE res)

\* blue_pick (predictor.py:78-80)
BluePick(blue_sorted, luck) ==
    LET pool == IF Take(blue_sorted, 4) # << >> THEN Take(blue_sorted, 4)
                ELSE AllBlue
    IN  Choice(pool, luck)

\* [n for n in tokens if lo <= int(n) <= hi]
Segment(tokens, lo, hi) ==
    SelectSeq(tokens, LAMBDA n : lo <= IntOf(n) /\ IntOf(n) <= hi)

\* the loop that drops a number following the one kept before it
\* (predictor.py:113-121)
RECURSIVE SkipConsecutive(_, _)
SkipConsecutive(base, cand) ==
    IF base = << >> THEN cand
    ELSE IF cand # << >> /\ IntOf(Head(base)) = IntOf(cand[Len(cand)]) + 1
    THEN SkipConsecutive(Tail(base), cand)
    ELSE SkipConsecutive(Tail(base), Append(cand, Head(base)))

\* the three segments of interval_balance with their sizes
\* (predictor.py:104-112, 157-168)
IntervalBalance(hot, medium, n1, n2, n3, luck) ==
    LET seg1 == Segment(medium, 1, 11) \o Segment(hot, 1, 11)
        seg2 == Segment(medium, 12, 22) \o Segment(hot, 12, 22)
        seg3 == Segment(medium, 23, 33) \o Segment(hot, 23, 33)
        r1 == PickDistinct(seg1, n1, {}, luck)
        r2 == PickDistinct(seg2, n2, ToSet(r1), luck)
        r3 == PickDistinct(seg3, n3, ToSet(r1 \o r2), luck)
    IN  SortByInt(Distinct(r1 \o r2 \o r3))

\* the red numbers of a strategy's first candidate (predictor.py:97-123)
FirstRed(strat, hot, cold, medium, luck) ==
    CASE strat = "balanced" -> PickDistinct(hot \o cold, 6, {}, luck)
      [] strat = "cold_recovery" ->
            PickDistinct(cold \o medium \o hot, 6, {}, luck)
      [] strat = "hot_focus" -> PickDistinct(hot \o medium, 6, {}, luck)
      [] strat = "interval_balance" ->
            IntervalBalance(hot, medium, 2, 2, 2, luck)
      [] strat = "contrarian" ->
            PickDistinct(SkipConsecutive(cold \o medium, << >>), 6, {}, luck)
      [] OTHER -> PickDistinct(hot \o cold, 6, {}, luck)

\* max(lo, min(hi, int(6 * (tenths/10 + i * 0.1)))): the products of the
\* floating-point ratios truncate to the same integers as the exact ones for
\* every i below the largest count
RatioCount(lo, hi, of, tenths, i) ==
    LET n == (of * (tenths + i)) \div 10
    IN  IF Min(hi, n) < lo THEN lo ELSE Min(hi, n)

\* the base list of the contrarian variants (predictor.py:170-174)
ContrarianBase(hot, cold, medium, i) ==
    LET avoid_count == (Len(hot) * (3 + i)) \div 10
        avoid_set == ToSet(Take(hot, avoid_count))
        kept == Without(cold, avoid_set)
        firsts == [j \in 1..Len(medium) |-> FirstOfPair(medium[j])]
    IN  kept \o Without(firsts, avoid_set)

\* the red numbers of variant i of a single strategy (predictor.py:137-181)
VariantRed(strategy, hot, cold, medium, i, luck) ==
    CASE strategy = "balanced" ->
            LET hot_count == RatioCount(1, 5, 6, 3, i)
                cold_count == 6 - hot_count
            IN  PickDistinct(Take(hot, hot_count * 2)
                                 \o Take(cold, cold_count * 2), 6, {}, luck)
      [] strategy = "cold_recovery" ->
            LET cold_count == RatioCount(2, 5, 6, 4, i)
                hot_count == 6 - cold_count
            IN  PickDistinct(Take(cold, cold_count * 2)
                                 \o Take(hot, hot_count * 2), 6, {}, luck)
      [] strategy = "hot_focus" ->
            LET hot_count == RatioCount(3, 6, 6, 5, i)
                cold_count == 6 - hot_count
            IN  PickDistinct(Take(hot, hot_count * 2)
                                 \o Take(cold, cold_count * 2), 6, {}, luck)
      [] strategy = "interval_balance" ->
            LET seg1_count == 2 + (i % 2)
                seg2_count == 2 + ((i + 1) % 2)
                seg3_count == 6 - seg1_count - seg2_count
            IN  IntervalBalance(hot, medium, seg1_count, seg2_count,
                                seg3_count, luck)
      [] strategy = "contrarian" ->
            PickDistinct(ContrarianBase(hot, cold, medium, i),
                         6, {}, luck)
      [] OTHER ->
            PickDistinct(Shuffle(Take(hot, 10) \o Take(cold, 10), luck),
                         6, {}, luck)

\* a PredictionResult: its numbers, special_numbers and metadata
PredictionResult(numbers, special_numbers, strategy, variant) ==
    [numbers |-> numbers, special_numbers |-> special_numbers,
     strategy |-> strategy, variant |-> variant]

Strategies ==
    <<"balanced", "cold_recovery", "hot_focus", "interval_balance",
      "contrarian">>

\* _predict_ssq_with_strategies (predictor.py:39-191)
PredictSsqWithStrategies(historical_data, strategy, count, luck) ==
    LET freq == Freq(historical_data)
        hot == Hot(freq)
        cold == Cold(freq)
        medium == Medium(freq)
        blue_sorted == BlueSorted(BlueFreq(historical_data))
        single == strategy \notin {"none", "", "all"}
        to_run == IF single THEN <<strategy>> ELSE Strategies
        results ==
            [j \in 1..Len(to_run) |->
                PredictionResult(FirstRed(to_run[j], hot, cold, medium, luck),
                                 <<BluePick(blue_sorted, luck + j)>>,
                                 to_run[j], 0)]
        extra_needed == count - Len(results)
    IN  IF single /\ Len(results) < count
        THEN results \o
             [j \in 1..extra_needed |->
                 PredictionResult(
                     VariantRed(strategy, hot, cold, medium, j - 1, luck + j),
                     <<BluePick(blue_sorted, luck + j)>>,
                     strategy, j)]
        ELSE results

\* _predict_fallback (predictor.py:193-206): random.sample(range(1, 34), 6)
\* and random.randint(1, 16), whatever the game
PredictFallback(historical_data, count, luck) ==
    [j \in 1..count |->
        LET numbers == SortByKey(Take(Shuffle([i \in 1..RedMax |-> i],
                                              luck + 7 * j), 6),
                                 [n \in 1..RedMax |-> n])
            blue == 1 + ((luck + j) % BlueMax)
        IN  PredictionResult([i \in 1..6 |-> Token(numbers[i])],
                             <<Token(blue)>>, "fallback", 0)]

\* RuleBasedPredictor.predict (predictor.py:27-37)
NoPredictions == << >>
RulePredict(lottery_type, historical_data, count, strategy, luck) ==
    IF lottery_type \notin SupportedTypes \cup TypeNames
    THEN [raised |-> TRUE, predictions |-> NoPredictions]
    ELSE IF lottery_type \in {"ssq", NameOf("ssq")}
    THEN [raised |-> FALSE,
          predictions |->
              PredictSsqWithStrategies(historical_data, strategy, count, luck)]
    ELSE [raised |-> FALSE,
          predictions |-> PredictFallback(historical_data, count, luck)]

\* PredictionManager.predict (predictor.py:214-222): a call that raised is
\* made once more, and what the second call raises reaches the caller
ManagerPredict(lottery_type, historical_data, count, strategy, luck) ==
    LET first ==
            RulePredict(lottery_type, historical_data, count, strategy, luck)
    IN  IF first.raised
        THEN RulePredict(lottery_type, historical_data, count, strategy,
                         luck + 1)
        ELSE first

\* the histories handed to the predictor: records as get_historical_data
\* returns them for 双色球, newest first
HistoryDraw(reds, blue) ==
    [numbers |-> [i \in 1..Len(reds) |-> Token(reds[i])],
     special_numbers |-> <<Token(blue)>>]
HistoryDraws ==
    {HistoryDraw(<<1, 2, 3, 4, 5, 6>>, 1),
     HistoryDraw(<<3, 9, 14, 20, 27, 33>>, 16),
     HistoryDraw(<<1, 12, 13, 23, 24, 32>>, 7)}
Histories == UNION {[1..n -> HistoryDraws] : n \in 1..MaxHistory}

StrategyNames == ToSet(Strategies) \cup {"all"}
PredictionTypes == SupportedTypes \cup TypeNames \cup {"dlt"}

\* one call of the predictor through its manager
PredictCall(lottery_type, historical_data, count, strategy, luck) ==
    /\ probe = NoProbe
    /\ LET answer == ManagerPredict(lottery_type, historical_data, count,
                                    strategy, luck)
       IN  probe' = [fn |-> "predict", lottery_type |-> lottery_type,
                     historical_data |-> historical_data, count |-> count,
                     strategy |-> strategy, raised |-> answer.raised,
                     predictions |-> answer.predictions]
    /\ UNCHANGED <<now, store, stats, call, inflight, ops>>

NextPredictor ==
    /\ probe = NoProbe
    /\ \E lottery_type \in PredictionTypes, historical_data \in Histories,
          count \in 1..MaxPredictions, strategy \in StrategyNames,
          luck \in 0..MaxLuck :
          PredictCall(lottery_type, historical_data, count, strategy, luck)

SpecPredictor == InitFresh /\ [][NextPredictor]_vars

\* the predictor was called and returned candidates
Predicted == probe.fn = "predict" /\ ~probe.raised

(* ------------------------------------------------------------------------ *)
(* C17: run_backtest fails with an insufficient-history error whenever      *)
(* len(history) < windowSize + 1, the case len(history) = windowSize        *)
(* included, and never returns a summary in that case.                      *)
(* ------------------------------------------------------------------------ *)
C17_InsufficientHistoryFails ==
    (Backtested /\ Len(probe.historical_data) < probe.window_size + 1)
    => (probe.raised /\ probe.summary = NoSummary)

(* ------------------------------------------------------------------------ *)
(* C18: run_backtest reorders a period-descending history to chronological  *)
(* ascending before windowing: in every evaluated window the target record  *)
(* is later (has a larger period) than every record of its training slice.  *)
(* ------------------------------------------------------------------------ *)
C18_TargetFollowsTraining ==
    Returned =>
        \A k \in 1..Len(probe.results) :
            \A i \in 1..Len(probe.results[k].train_periods) :
                probe.results[k].train_periods[i] < probe.results[k].period

(* ------------------------------------------------------------------------ *)
(* C19: for a history h of n records run_backtest evaluates exactly the     *)
(* windows whose start is 0, step, 2*step, ... with start + windowSize < n; *)
(* the window at start trains on h[start : start+windowSize] and targets    *)
(* h[start+windowSize]; total_periods is the number of these windows.       *)
(* ------------------------------------------------------------------------ *)
\* the starts 0, step, 2*step, ... below n - windowSize, counted from 0
ExpectedStarts ==
    {start \in 0..MaxHist :
        /\ start % probe.step = 0
        /\ start + probe.window_size < Len(probe.historical_data)}

\* h[i] with indices counted from 0
At(h, i) == h[i + 1]

C19_WindowsAreTheSteppedStarts ==
    Returned =>
        LET h == probe.historical_data
            w == probe.window_size
        IN  /\ Len(probe.results) = Cardinality(ExpectedStarts)
            /\ probe.summary.total_periods = Cardinality(ExpectedStarts)
            /\ \A k \in 1..Len(probe.results) :
                  LET start == (k - 1) * probe.step IN
                  /\ start \in ExpectedStarts
                  /\ probe.results[k].period = At(h, start + w).period
                  /\ probe.results[k].train_periods
                        = [i \in 1..w |-> At(h, start + i - 1).period]

\* five records, windows of two, step two: the windows start at 0 and 2
C19_Witness ==
    /\ Returned
    /\ Len(probe.historical_data) = 5
    /\ probe.window_size = 2
    /\ probe.step = 2
    /\ Len(probe.results) = 2
    /\ probe.summary.total_periods = 2
    /\ probe.results[2].period = At(probe.historical_data, 4).period

(* ------------------------------------------------------------------------ *)
(* C20: for every registered strategy s, strategy_performance[s] of the     *)
(* summary equals the mean of s's own accuracy over all windows in which s  *)
(* was evaluated, whether or not s achieved the window's maximum.           *)
(* ------------------------------------------------------------------------ *)
\* the accuracies strategy s got, window by window
OwnAccuracies(s) ==
    [k \in 1..Len(probe.results) |-> probe.results[k].predictions[s].accuracy]

C20_PerformanceIsOwnMean ==
    (Returned /\ probe.results # << >>)
    => \A s \in MethodSet :
          probe.summary.strategy_performance[s].den > 0
          /\ probe.summary.strategy_performance[s].num * Len(probe.results)
                = SumSeq(OwnAccuracies(s))
                    * probe.summary.strategy_performance[s].den

\* three windows with different accuracies, mean 0.3778
C20_Witness ==
    /\ Returned
    /\ Len(probe.results) = 3
    /\ OwnAccuracies("rule") = <<0, 1333, 10000>>
    /\ FracEq(probe.summary.strategy_performance["rule"], Frac(11333, 3))

(* ------------------------------------------------------------------------ *)
(* C21: each window's accuracy is the maximum accuracy across all           *)
(* registered strategies for that window, and the window is tagged with a   *)
(* strategy that achieves that maximum; when several strategies tie, the    *)
(* earliest-registered one, in the order of the methods list, is chosen.    *)
(* ------------------------------------------------------------------------ *)
\* `accuracy` is the maximum of own[m] over the strategies and `method` is
\* the first strategy of `methods` that reaches it
IsFirstBest(methods, own, accuracy, method) ==
    /\ \A i \in 1..Len(methods) : own[methods[i]] <= accuracy
    /\ \E i \in 1..Len(methods) :
          /\ methods[i] = method
          /\ own[method] = accuracy
          /\ \A j \in 1..(i - 1) : own[methods[j]] < accuracy

C21_WindowTakesFirstBest ==
    /\ Returned =>
          \A k \in 1..Len(probe.results) :
              IsFirstBest(Methods,
                          [m \in MethodSet |->
                              probe.results[k].predictions[m].accuracy],
                          probe.results[k].accuracy, probe.results[k].method)
    /\ probe.fn = "window_best" =>
          IsFirstBest(probe.methods, probe.accuracies, probe.accuracy,
                      probe.method)

\* two strategies tie at 0.5: the window goes to the one registered first
C21_Witness ==
    /\ probe.fn = "window_best"
    /\ probe.methods = <<"trend", "rule">>
    /\ probe.accuracies["trend"] = 5000
    /\ probe.accuracies["rule"] = 5000
    /\ probe.accuracy = 5000
    /\ probe.method = "trend"

(* ------------------------------------------------------------------------ *)
(* C22: best_strategy is a strategy with the highest strategy_performance;  *)
(* when two strategies have equal performance the one registered first is   *)
(* returned, so the same performances always give the same best_strategy.   *)
(* ------------------------------------------------------------------------ *)
\* no strategy performs better than `best`, and none registered before it
\* performs as well: exactly one strategy of `methods` is such
IsFirstBestStrategy(methods, strategy_performance, best) ==
    \E i \in 1..Len(methods) :
        /\ methods[i] = best
        /\ \A j \in 1..Len(methods) :
              ~FracLess(strategy_performance[best],
                        strategy_performance[methods[j]])
        /\ \A j \in 1..(i - 1) :
              FracLess(strategy_performance[methods[j]],
                       strategy_performance[best])

C22_BestStrategyIsFirstHighest ==
    /\ (Returned /\ probe.results # << >>) =>
          IsFirstBestStrategy(Methods, probe.summary.strategy_performance,
                              probe.summary.best_strategy)
    /\ probe.fn = "best_strategy" =>
          IsFirstBestStrategy(probe.methods, probe.strategy_performance,
                              probe.best_strategy)

\* two strategies both perform 0.5: the one registered first is the best
C22_Witness ==
    /\ probe.fn = "best_strategy"
    /\ probe.methods = <<"frequency", "rule">>
    /\ FracEq(probe.strategy_performance["frequency"], Frac(5000, 1))
    /\ FracEq(probe.strategy_performance["rule"], Frac(5000, 1))
    /\ probe.best_strategy = "frequency"

(* ------------------------------------------------------------------------ *)
(* C23: average_accuracy of the summary is the arithmetic mean of the       *)
(* window accuracies over all evaluated windows, rounded to four decimal    *)
(* places: it is a ten-thousandth nearest to the mean.                      *)
(* ------------------------------------------------------------------------ *)
WindowAccuracies == [k \in 1..Len(probe.results) |-> probe.results[k].accuracy]

C23_AverageIsRoundedMean ==
    (Returned /\ probe.results # << >>) =>
        2 * Abs(probe.summary.average_accuracy * Len(probe.results)
                    - SumSeq(WindowAccuracies))
            <= Len(probe.results)

\* windows of 0, 0.1333 and 1.0: the mean 0.37776... is reported as 0.3778
C23_Witness ==
    /\ Returned
    /\ WindowAccuracies = <<0, 1333, 10000>>
    /\ probe.summary.average_accuracy = 3778

(* ------------------------------------------------------------------------ *)
(* C24: for every supported game type and through every entry point of the  *)
(* backtest (the HTTP handler passes the code, the MCP tool the name), a    *)
(* candidate identical to the actual draw scores 1.0 and a candidate        *)
(* sharing no element with it scores 0.0, draws of the digit game with      *)
(* repeated digits included.                                                *)
(* ------------------------------------------------------------------------ *)
Scored == probe.fn = "accuracy"

\* the candidate is the draw: the same numbers in the same places and, where
\* the game has one, the same special number
Identical(candidate, draw) ==
    /\ candidate.numbers = draw.numbers
    /\ draw.special_numbers # None
          => candidate.special_numbers = draw.special_numbers

\* the candidate shares no number and no special number with the draw
SharesNothing(candidate, draw) ==
    /\ ToSet(candidate.numbers) \cap ToSet(draw.numbers) = {}
    /\ ToSet(candidate.special_numbers) \cap ToSet(draw.special_numbers) = {}

C24_IdenticalScoresOneDisjointZero ==
    (Scored /\ Len(probe.predictions) = 1) =>
        /\ Identical(probe.predictions[1], probe.actual_data)
              => probe.accuracy = 10000
        /\ SharesNothing(probe.predictions[1], probe.actual_data)
              => probe.accuracy = 0

(* ------------------------------------------------------------------------ *)
(* C25: if a strategy's predictor call fails for a window, that strategy    *)
(* contributes accuracy 0.0 with an empty candidate list for that window    *)
(* and the run continues: all windows are still evaluated and a summary is  *)
(* returned.                                                                *)
(* ------------------------------------------------------------------------ *)
C25_FailedPredictionScoresZero ==
    (Backtested /\ PredictRaises(probe.lottery_type)
        /\ Len(probe.historical_data) >= probe.window_size) =>
        /\ ~probe.raised
        /\ probe.summary # NoSummary
        /\ Len(probe.results) = Cardinality(ExpectedStarts)
        /\ probe.summary.total_periods = Len(probe.results)
        /\ \A k \in 1..Len(probe.results) :
              /\ \A m \in MethodSet :
                    /\ probe.results[k].predictions[m].predictions = << >>
                    /\ probe.results[k].predictions[m].accuracy = 0
              /\ probe.results[k].accuracy = 0

\* a type the predictor rejects, four windows: all four are in the summary
C25_Witness ==
    /\ Returned
    /\ PredictRaises(probe.lottery_type)
    /\ Len(probe.results) = 4
    /\ probe.summary.total_periods = 4
    /\ probe.summary.average_accuracy = 0
    /\ \A k \in 1..4 : probe.results[k].predictions["rule"] = Failed

(* ------------------------------------------------------------------------ *)
(* C26: every score of the scoring functions, every per-strategy accuracy,  *)
(* every window accuracy and average_accuracy lies in [0, 1], for all       *)
(* candidates and draws that respect the game's pick counts.                *)
(* ------------------------------------------------------------------------ *)
UnitInterval == 0..10000

InUnit(x) == x.den > 0 /\ 0 <= x.num /\ x.num <= 10000 * x.den

C26_ScoresLieInUnitInterval ==
    /\ Scored =>
          /\ probe.accuracy \in UnitInterval
          /\ \A i \in 1..Len(probe.predictions) :
                InUnit(AccuracyOf(probe.predictions[i], probe.actual_data,
                                  probe.lottery_type))
    /\ Returned =>
          /\ probe.summary.average_accuracy \in UnitInterval
          /\ \A k \in 1..Len(probe.results) :
                /\ probe.results[k].accuracy \in UnitInterval
                /\ InUnit(probe.results[k].precision)
                /\ \A m \in MethodSet :
                      probe.results[k].predictions[m].accuracy \in UnitInterval
          /\ probe.results # << >> =>
                \A m \in MethodSet :
                    InUnit(probe.summary.strategy_performance[m])

\* all twenty numbers of a kl8 draw are hit: the score is 1.0, the bound
C26_Witness ==
    /\ Scored
    /\ probe.lottery_type = "kl8"
    /\ Len(probe.predictions) = 2
    /\ Hits(probe.predictions[2].numbers, probe.actual_data.numbers) = Kl8Count
    /\ probe.accuracy = 10000

(* ------------------------------------------------------------------------ *)
(* C27: the accuracy of an empty candidate list is 0.0 for every game type  *)
(* and every actual draw.                                                   *)
(* ------------------------------------------------------------------------ *)
C27_EmptyListScoresZero ==
    (Scored /\ probe.predictions = << >>) => probe.accuracy = 0

\* no candidate against the draw 2,5,5 of the digit game
C27_Witness ==
    /\ Scored
    /\ probe.predictions = << >>
    /\ probe.lottery_type = "3d"
    /\ probe.actual_data.numbers = <<2, 5, 5>>
    /\ probe.accuracy = 0

(* ------------------------------------------------------------------------ *)
(* C28: run_backtest is free of side effects on the cache: it sends no      *)
(* request to the source, reads and writes no table, and leaves the stored  *)
(* records and the number statistics as they are.                           *)
(* ------------------------------------------------------------------------ *)
C28_BacktestLeavesCacheAlone ==
    [][Backtested' =>
          /\ store' = store
          /\ stats' = stats
          /\ inflight' = inflight
          /\ call' = call]_vars

\* a run of at least one window beside a table that holds a record
C28_Witness ==
    /\ Returned
    /\ Len(probe.results) >= 1
    /\ \E t \in SupportedTypes :
          /\ store[t] # EmptyBag
          /\ \E n \in Numbers : stats[t][n] > 0
    /\ inflight = {}

(* ------------------------------------------------------------------------ *)
(* C29: get_historical_data calls for different game types are independent: *)
(* a refresh in flight, or failing, for one game type never delays, blocks  *)
(* or changes the result of a call for another game type, and never changes *)
(* the other type's stored records.                                         *)
(* ------------------------------------------------------------------------ *)
\* the store with every table but lottery_type's emptied
OwnTable(lottery_type) ==
    [t \in SupportedTypes |->
        IF t = lottery_type THEN store[t] ELSE EmptyBag]

\* a step of get_historical_data in slot c for lottery_type leaves the
\* tables and statistics of the other types, and the calls in the other
\* slots with their requests, as they were
LeavesOthersAlone(c, lottery_type) ==
    /\ \A u \in SupportedTypes \ {lottery_type} :
          store'[u] = store[u] /\ stats'[u] = stats[u]
    /\ \A d \in Calls \ {c} :
          call'[d] = call[d] /\ (d \in inflight' <=> d \in inflight)

C29_TypesAreIndependent ==
    /\ [](\A d \in Calls :
            (HistCall(d) /\ Awaiting(d) /\ ~Delivering)
            => ENABLED HistResume(d, TimeoutResp))
    /\ [][\A c \in Calls :
            /\ \A t \in ServedTypes, p \in Counts :
                  \/ /\ LeavesOthersAlone(c, t)
                     /\ call'[c].db_results
                           = DbGetHistoricalData(OwnTable(t), t, p)
                  \/ ~HistStart(c, t, p)
            /\ \A resp \in Responses(call[c].periods) :
                  \/ LeavesOthersAlone(c, call[c].lottery_type)
                  \/ ~HistResume(c, resp)]_vars

\* the refresh of one game has failed while the refresh of another is still
\* out; the other's call is as it was when it sent its request
C29_Witness ==
    \E c, d \in Calls :
        /\ HistCall(c) /\ Done(c) /\ call[c].ret = "fetch_failed"
        /\ HistCall(d) /\ Awaiting(d) /\ d \in inflight
        /\ call[c].lottery_type \in SupportedTypes
        /\ call[d].lottery_type \in SupportedTypes
        /\ call[c].lottery_type # call[d].lottery_type
        /\ call[d].results = << >>

(* ------------------------------------------------------------------------ *)
(* C30: when two refreshes (get_historical_data, force_sync_data or         *)
(* get_*_latest running concurrently) upsert the same (game type, period),  *)
(* the stored record afterwards equals, in all its fields, the record       *)
(* written by one of the writers: every row a refresh leaves in the table   *)
(* is a row that was there before or, whole, a row this refresh wrote.      *)
(* ------------------------------------------------------------------------ *)
\* the rows a refresh writes for the items it can read
WrittenRows(data, lottery_type, amounts) ==
    {Row(data[i].code, data[i].date, data[i].red,
         IF HasSpecial(lottery_type) THEN Blue ELSE NoBlue, amounts) :
        i \in {j \in 1..Len(data) : data[j].missing = "none"}}

\* each row of the table after the step was there before or is one of rows
RowsAreWhole(lottery_type, rows) ==
    \A r \in BagToSet(store'[lottery_type]) :
        r \in BagToSet(store[lottery_type]) \/ r \in rows

C30_UpsertsAreWhole ==
    [][\A c \in Calls : Awaiting(c) =>
          \A resp \in Responses(call[c].periods) :
              LET t == call[c].lottery_type
                  data == FetchLotteryData(resp)
                  amounts == IF HistCall(c) THEN "null" ELSE "set"
              IN  \/ data = None
                  \/ RowsAreWhole(t, WrittenRows(data, t, amounts))
                  \/ ~(\/ HistResume(c, resp)
                       \/ SyncResume(c, resp)
                       \/ LatestResume(c, resp))]_vars

\* get_*_latest has replaced a record that a get_historical_data call of the
\* same game read before it sent the request it is still waiting for, and
\* will upsert again
C30_Witness ==
    \E c, d \in Calls :
        /\ LatestCall(c) /\ Done(c) /\ call[c].ret = "fetched"
        /\ HistCall(d) /\ Awaiting(d) /\ d \in inflight
        /\ call[c].lottery_type = call[d].lottery_type
        /\ \E r \in BagToSet(store[call[c].lottery_type]) :
              /\ r.amounts = "set"
              /\ \E i \in 1..Len(call[d].db_results) :
                    /\ call[d].db_results[i].period = r.period
                    /\ call[d].db_results[i] # r

(* ------------------------------------------------------------------------ *)
(* C31: whichever entry point started the backtest, the score of a          *)
(* candidate is the game's formula: primary hits / P * 0.8 + secondary      *)
(* hits * 0.2 for the games with a secondary number (P = 6 and P = 7), the  *)
(* fraction of matching positions for the digit game, and                   *)
(* |candidate \cap actual| / 20 for the flat multi-pick game.               *)
(* ------------------------------------------------------------------------ *)
\* the game a lottery_type stands for, given as code or as name
GameOf(lottery_type) ==
    CHOOSE game \in SupportedTypes :
        lottery_type = game \/ lottery_type = NameOf(game)

\* the game's formula, in ten-thousandths, as an exact quotient
GameFormula(game, candidate, draw) ==
    LET primary == Cardinality(ToSet(candidate.numbers) \cap ToSet(draw.numbers))
        secondary == Cardinality(ToSet(candidate.special_numbers)
                                    \cap ToSet(draw.special_numbers))
        positions == Cardinality({i \in 1..3 :
                                     candidate.numbers[i] = draw.numbers[i]})
    IN  CASE game = "ssq" -> Frac(primary * 8000 + secondary * 2000 * 6, 6)
          [] game = "qlc" -> Frac(primary * 8000 + secondary * 2000 * 7, 7)
          [] game = "3d" -> Frac(positions * 10000, 3)
          [] game = "kl8" -> Frac(primary * 10000, 20)

C31_ScoreIsTheGameFormula ==
    (Scored /\ Len(probe.predictions) = 1) =>
        LET expected == GameFormula(GameOf(probe.lottery_type),
                                    probe.predictions[1], probe.actual_data)
        IN  probe.accuracy = Round4(expected.num, expected.den)

(* ------------------------------------------------------------------------ *)
(* C32: a strategy's accuracy for a window is the maximum of the scores of  *)
(* all candidates the strategy proposed for that window, not the first,     *)
(* the last or the mean score.                                              *)
(* ------------------------------------------------------------------------ *)
\* the reported score of the i-th candidate
ScoreOf(predictions, actual_data, lottery_type, i) ==
    LET score == AccuracyOf(predictions[i], actual_data, lottery_type)
    IN  Round4(score.num, score.den)

\* a is the largest of the candidates' scores
IsMaxScore(a, predictions, actual_data, lottery_type) ==
    /\ \E i \in 1..Len(predictions) :
          a = ScoreOf(predictions, actual_data, lottery_type, i)
    /\ \A i \in 1..Len(predictions) :
          ScoreOf(predictions, actual_data, lottery_type, i) <= a

C32_AccuracyIsBestCandidate ==
    /\ (Scored /\ probe.predictions # << >>) =>
          IsMaxScore(probe.accuracy, probe.predictions, probe.actual_data,
                     probe.lottery_type)
    /\ Returned =>
          \A k \in 1..Len(probe.results) : \A m \in MethodSet :
              probe.results[k].predictions[m].predictions # << >> =>
                  IsMaxScore(probe.results[k].predictions[m].accuracy,
                             probe.results[k].predictions[m].predictions,
                             [numbers |-> probe.results[k].actual_numbers,
                              special_numbers |->
                                  probe.results[k].actual_special_numbers],
                             probe.lottery_type)

\* two candidates, the first scoring 0.6 and the second 0.1333: the accuracy
\* is 0.6, which is neither the last score nor the mean
C32_Witness ==
    /\ Scored
    /\ probe.lottery_type = "ssq"
    /\ Len(probe.predictions) = 2
    /\ ScoreOf(probe.predictions, probe.actual_data, "ssq", 1) = 6000
    /\ ScoreOf(probe.predictions, probe.actual_data, "ssq", 2) = 1333
    /\ probe.accuracy = 6000

(* ------------------------------------------------------------------------ *)
(* C33: a successful refresh by get_historical_data never loses what is     *)
(* stored for a period: a period stored with prize pool and sales amount    *)
(* (by get_*_latest or force_sync_data) still has them after                *)
(* get_historical_data has upserted it again.                               *)
(* ------------------------------------------------------------------------ *)
\* every period of the game stored with amounts is still stored with them
KeepsAmounts(lottery_type) ==
    \A r \in BagToSet(store[lottery_type]) :
        r.amounts = "set" =>
            \E q \in BagToSet(store'[lottery_type]) :
                q.period = r.period /\ q.amounts = "set"

C33_RefreshKeepsAmounts ==
    [][\A c \in Calls : (HistCall(c) /\ Awaiting(c)) =>
          \A resp \in Responses(call[c].periods) :
              \/ KeepsAmounts(call[c].lottery_type)
              \/ ~HistResume(c, resp)]_vars

(* ------------------------------------------------------------------------ *)
(* C34: after get_historical_data(type, count) completes a successful       *)
(* refresh in which the source returned at least `count` records that are   *)
(* fresh and gap-free, an immediately following                             *)
(* get_historical_data(type, count), with no time elapsed and no other      *)
(* writer, is answered from the store without any fetch.                    *)
(* ------------------------------------------------------------------------ *)
\* The refresh of slot c has just returned the batch of the source: at least
\* `count` records, newest first, the newest fresh and the batch without a
\* gap.
FreshBatch(c) ==
    LET t == call[c].lottery_type
        batch == call[c].results
    IN  /\ Done(c) /\ HistCall(c) /\ call[c].ret = "fetched"
        /\ Len(batch) >= call[c].periods
        /\ \A i \in 1..(Len(batch) - 1) : batch[i].period > batch[i + 1].period
        /\ IsDataFresh(batch[1].draw_date, t, now)
        /\ CheckPeriodContinuity(batch, t)

\* ... and the store holds no record of a later period than the batch
GoodRefresh(c) ==
    /\ FreshBatch(c)
    /\ \A r \in BagToSet(store[call[c].lottery_type]) :
          r.period <= call[c].results[1].period

\* the following call decides against a fetch
NextCallIsCached(c) ==
    LET t == call[c].lottery_type
        db_results == DbGetHistoricalData(store, t, call[c].periods)
    IN  /\ Len(db_results) = call[c].periods
        /\ ~ShouldUpdate(db_results, t, call[c].periods, now)

C35_FailedFetchChangesNothing ==
    [][\A c \in Calls : Awaiting(c) =>
          \A resp \in Responses(call[c].periods) :
              \/ ~FetchFails(resp)
              \/ (store' = store /\ stats' = stats)
              \/ ~(\/ HistResume(c, resp)
                   \/ LatestResume(c, resp)
                   \/ SyncResume(c, resp))]_vars

\* a failed force_sync_data beside a table that holds a record
C35_Witness ==
    \E c \in Calls :
        /\ Done(c)
        /\ call[c].op = "sync"
        /\ call[c].ret = "fetch_failed"
        /\ call[c].resp_kind = "unreachable"
        /\ call[c].lottery_type \in SupportedTypes
        /\ store[call[c].lottery_type] # EmptyBag

(* ------------------------------------------------------------------------ *)
(* C36: after any sequence of get_*_latest and force_sync_data operations   *)
(* the frequency stored in number_statistics for a number of a game type    *)
(* equals the number of distinct stored draws of that game type that        *)
(* contain the number; re-fetching a period that is already stored does not *)
(* change any frequency.  Stated step by step: each of the two operations   *)
(* moves every frequency by exactly as much as it moves the number of       *)
(* stored draws that contain the number.                                    *)
(* ------------------------------------------------------------------------ *)
\* the draw of a stored row contains the number
DrawContains(row, lottery_type, n) ==
    \/ n \in ToSet(row.numbers)
    \/ HasSpecial(lottery_type) /\ row.special = n

\* the number of distinct stored draws of the game that contain the number
DrawsContaining(tbl, lottery_type, n) ==
    Cardinality({r.period : r \in {x \in BagToSet(tbl) :
                                        DrawContains(x, lottery_type, n)}})

C36_FrequencyCountsStoredDraws ==
    [][\A c \in Calls : Awaiting(c) /\ call[c].op \in {"latest", "sync"} =>
          \A resp \in Responses(call[c].periods) :
              \/ \A t \in SupportedTypes : \A n \in Numbers :
                     stats'[t][n] - stats[t][n] =
                         DrawsContaining(store'[t], t, n)
                             - DrawsContaining(store[t], t, n)
              \/ ~(LatestResume(c, resp) \/ SyncResume(c, resp))]_vars

(* ------------------------------------------------------------------------ *)
(* C37: force_sync_data always fetches from the network regardless of       *)
(* freshness; on a successful fetch its synced_count equals the number of   *)
(* source records whose save succeeded, with                                *)
(* 0 <= synced_count <= total_available, and a record that fails to save or *)
(* parse does not stop the records after it from being saved.               *)
(* ------------------------------------------------------------------------ *)
\* the positions of the batch whose record can be parsed and saved
Saveable(data) == {i \in DOMAIN data : data[i].missing = "none"}

\* the record at position i is the last saveable one of its period
LastOfPeriod(data, i) ==
    \A j \in Saveable(data) : j > i => data[j].code # data[i].code

\* every saveable record of the batch is stored once the call has returned
EverySaveableStored(data, tbl, lottery_type) ==
    \A i \in Saveable(data) :
        LastOfPeriod(data, i) =>
            FullRow(data[i], lottery_type) \in BagToSet(tbl)

C37_ForceSyncSavesEveryGoodRecord ==
    [][/\ \A c \in Calls, t \in SupportedTypes, p \in Counts :
              SyncStart(c, t, p) =>
                  call'[c].pc = "await" /\ call'[c].fetch_calls = 1
       /\ \A c \in Calls : Awaiting(c) /\ call[c].op = "sync" =>
              \A resp \in Responses(call[c].periods) :
                  \/ FetchFails(resp)
                  \/ ~SyncResume(c, resp)
                  \/ /\ call'[c].success
                     /\ call'[c].synced_count
                            = Cardinality(Saveable(resp.result))
                     /\ call'[c].total_available = Len(resp.result)
                     /\ 0 <= call'[c].synced_count
                     /\ call'[c].synced_count <= call'[c].total_available
                     /\ EverySaveableStored(resp.result,
                            store'[call[c].lottery_type],
                            call[c].lottery_type)]_vars

(* ------------------------------------------------------------------------ *)
(* C38: for 双色球, every candidate returned by the rule predictor - for    *)
(* every strategy (balanced, cold_recovery, hot_focus, interval_balance,    *)
(* contrarian, all), every requested count from 1 to 20 and every history - *)
(* has exactly 6 distinct primary numbers, each a two-digit token in        *)
(* 01..33, and exactly one secondary number in 01..16.                      *)
(* ------------------------------------------------------------------------ *)
\* a two-digit token of a number in lo..hi
TwoDigitToken(token, lo, hi) ==
    /\ Len(token) = 2
    /\ lo <= IntOf(token)
    /\ IntOf(token) <= hi

SsqShape(candidate) ==
    /\ Len(candidate.numbers) = 6
    /\ Cardinality(ToSet(candidate.numbers)) = 6
    /\ \A i \in DOMAIN candidate.numbers :
           TwoDigitToken(candidate.numbers[i], 1, RedMax)
    /\ Len(candidate.special_numbers) = 1
    /\ TwoDigitToken(candidate.special_numbers[1], 1, BlueMax)

C38_SsqCandidatesAreWellFormed ==
    (Predicted /\ probe.lottery_type \in {"ssq", NameOf("ssq")}) =>
        \A j \in DOMAIN probe.predictions : SsqShape(probe.predictions[j])

(* ------------------------------------------------------------------------ *)
(* C39: for every supported game type, each candidate the rule predictor    *)
(* returns has the shape of that game: 3 positional digits in 0..9 for      *)
(* 福彩3D, 7 numbers in 01..30 plus one special number for 七乐彩, 20       *)
(* numbers in 01..80 and no secondary number for 快乐8 - so that a backtest *)
(* of these games can score above 0.                                        *)
(* ------------------------------------------------------------------------ *)
GameShape(game, candidate) ==
    CASE game = "3d" ->
            /\ Len(candidate.numbers) = 3
            /\ \A i \in DOMAIN candidate.numbers :
                   /\ Len(candidate.numbers[i]) = 1
                   /\ candidate.numbers[i][1] \in 0..9
      [] game = "qlc" ->
            /\ Len(candidate.numbers) = 7
            /\ \A i \in DOMAIN candidate.numbers :
                   TwoDigitToken(candidate.numbers[i], 1, 30)
            /\ Len(candidate.special_numbers) = 1
      [] game = "kl8" ->
            /\ Len(candidate.numbers) = 20
            /\ \A i \in DOMAIN candidate.numbers :
                   TwoDigitToken(candidate.numbers[i], 1, 80)
            /\ candidate.special_numbers = << >>
      [] OTHER -> SsqShape(candidate)

C39_CandidatesHaveTheGameShape ==
    Predicted =>
        \A j \in DOMAIN probe.predictions :
            GameShape(GameOf(probe.lottery_type), probe.predictions[j])

====
